---- MODULE Spec2Model ----
(***************************************************************************)
(* The batch comment-analysis pipeline of CommentAnalyzer:                 *)
(* AnalysisService.analyze_videos_batch and the analytic routines it       *)
(* calls (src/app/services/analysis_service.py), driven either by the      *)
(* synchronous endpoint, by the streaming endpoint (src/app/main.py) or by *)
(* a direct call with an awaitable progress sink.                          *)
(*                                                                         *)
(* Conventions.  Fractions are kept in thousandths (0.25 is 250), the      *)
(* polarity of a comment in hundredths (0.1 is 10).  A text is a sequence  *)
(* of characters, a character a natural number.  What the regular          *)
(* expressions and the third-party scorers (TextBlob, TfidfVectorizer)     *)
(* find in a comment is data of the comment; what the code does with it    *)
(* (loops, caps, de-duplication, slicing, rounding) is computed here.      *)
(***************************************************************************)
EXTENDS Integers, Sequences, FiniteSets, TLC

VARIABLES
    caller,           \* "sync" | "stream" | "direct": who calls analyze_videos_batch
    hashSeed,         \* the process' string-hash seed (orders list(set(...)))
    videos,           \* the list of video descriptors handed to the batch
    pc,               \* position in the endpoint / in analyze_videos_batch
    index,            \* enumerate(videos, 1): the current index
    comments,         \* local: the comments fetched for the current video
    status,           \* local: the BatchProcessingStatus object last built
    error,            \* local: str(e) of the exception being handled
    results,          \* local: the accumulating list of VideoAnalysis
    emitted,          \* the records the progress sink accepted, in order
    stream,           \* the elements generate_stream has yielded
    response,         \* what the endpoint answered
    faults,           \* per video: the steps that raised while it was processed
    fetched,          \* per video: what the comment fetcher was asked and gave
    delays,           \* the indexes after which asyncio.sleep(1) completed
    sentiments,       \* input of _calculate_sentiment_summary
    summary,          \* its output
    scored,           \* what TextBlob gave for the text of an _analyze_sentiment call
    sentiment,        \* what that call returned
    counted,          \* a list of results handed to both endpoints' counting
    syncCounts,       \* the counts analyze_youtube_comments derives from it
    streamCounts,     \* the counts generate_stream derives from it
    llm_pc,           \* position in llm_analyzer.analyze_video_comments
    llm_comments,     \* its argument comments
    sanitized_comments,
    base_response,    \* the record it builds and returns
    last_error,       \* None (<<>>) or the last error text
    model_index,      \* how many of openrouter_models the loop has taken
    posted,           \* the models requests.post was called for, in order
    reply,            \* what the last requests.post gave
    req_pc,           \* position in an endpoint of app/main.py before the batch
    req_caller,       \* "sync" (/analyze-youtube) | "stream" (/analyze-youtube-stream)
    filters,          \* the filters query parameter
    search_filters,   \* local: None (<<>>) or the SearchFilters built from it
    searches,         \* the calls made to youtube_service.search_videos
    answer,           \* the endpoint's answers: an HTTP error or stream elements
    comment_texts,    \* argument of an _extract_next_topic_ideas call
    unique_topics,    \* what that call returned
    keyword_texts,    \* argument of an _extract_keywords call
    top_keywords,     \* what that call returned
    ev_pc,            \* position in event_stream of src/main.py
    ev_videos,        \* local videos: what the search returned
    ev_idx,           \* the video the loop is at (1-based)
    ev_comments,      \* local comments
    ev_analysis,      \* local analysis
    ev_inserts,       \* per video handled so far: did insert_job_result succeed
    ev_yielded,       \* the events yielded so far
    heap,             \* the BatchProcessingStatus objects built, with their current fields
    held,             \* the references the progress sink holds: indexes into heap
    clock,            \* time.time() at the last check_rate_limit call, in seconds
    requests,         \* RateLimiter.requests["global"]
    admitted,         \* the calls check_rate_limit let through: time and client
    rejected          \* the calls it answered with HTTP 429: time and client

batchVars == <<caller, hashSeed, videos, pc, index, comments, status, error,
               results, emitted, stream, response, faults, fetched, delays>>

sentimentVars == <<sentiments, summary>>

scoreVars == <<scored, sentiment>>

countVars == <<counted, syncCounts, streamCounts>>

(* everything outside analyze_videos_batch and its callers *)
llmVars == <<llm_pc, llm_comments, sanitized_comments, base_response, last_error,
             model_index, posted, reply>>

requestVars == <<req_pc, req_caller, filters, search_filters, searches, answer>>

coreVars == <<batchVars, sentimentVars, scoreVars, countVars, llmVars>>

topicVars == <<comment_texts, unique_topics>>

keywordVars == <<keyword_texts, top_keywords>>

eventVars == <<ev_pc, ev_videos, ev_idx, ev_comments, ev_analysis, ev_inserts, ev_yielded>>

(* the status objects of analyze_videos_batch as the sink holds them *)
sinkVars == <<heap, held>>

limiterVars == <<clock, requests, admitted, rejected>>

extraVars == <<requestVars, topicVars, keywordVars, eventVars, sinkVars, limiterVars>>

besideRequest == <<coreVars, topicVars, keywordVars, eventVars, sinkVars, limiterVars>>

besideTopics == <<coreVars, requestVars, keywordVars, eventVars, sinkVars, limiterVars>>

besideKeywords == <<coreVars, requestVars, topicVars, eventVars, sinkVars, limiterVars>>

besideEvents == <<coreVars, requestVars, topicVars, keywordVars, sinkVars, limiterVars>>

besideSink == <<sentimentVars, scoreVars, countVars, llmVars,
                requestVars, topicVars, keywordVars, eventVars, limiterVars>>

besideLimiter == <<coreVars, requestVars, topicVars, keywordVars, eventVars, sinkVars>>

otherVars == <<sentimentVars, scoreVars, countVars, llmVars, extraVars>>

vars == <<batchVars, otherVars>>

-----------------------------------------------------------------------------
(* Bounds of the model *)

MaxVideos == 2
MaxSentiments == 7
MaxPolarity == 100      \* polarity scores are drawn from -1.00 .. 1.00, in hundredths
MaxCounted == 4

-----------------------------------------------------------------------------
(* Program constants *)

PositiveThreshold == 10       \* polarity > 0.1
NegativeThreshold == -10      \* polarity < -0.1
KeywordCap == 10              \* len(keywords) >= 10 / keywords[:10]
EnhancedCap == 10             \* enhanced_keywords[:10]
ThemeCap == 5                 \* len(themes) >= 5
ProsConsCap == 5              \* pros[:5], cons[:5]
ThemeScan == 20               \* comments[:20]
ContextMin == 10              \* len(cleaned) > 10
ContextMax == 100             \* len(cleaned) < 100
TopicStop == 4                \* len(topic_ideas) >= 4
TopicCap == 4                 \* unique_topics[:4]
TopicMin == 5                 \* len(topic) > 5
TopicMax == 50                \* len(topic) < 50
ErrorTextCap == 50            \* error_message[:50]
HighLikes == 10               \* avg_likes > 10
HighReplies == 2              \* avg_replies > 2
ViralLikes == 50              \* likeCount > 50
ViralCount == 5               \* more than 5 such comments
WordCap == 100                \* len(c_clean.split()) <= 100

-----------------------------------------------------------------------------
(* Helpers on sequences *)

Min(a, b) == IF a <= b THEN a ELSE b

Take(s, n) == SubSeq(s, 1, Min(n, Len(s)))

Range(s) == {s[i] : i \in DOMAIN s}

RECURSIVE SumSeq(_)
SumSeq(s) == IF s = <<>> THEN 0 ELSE Head(s) + SumSeq(Tail(s))

Text(c, n) == [i \in 1..n |-> c]

-----------------------------------------------------------------------------
(* Data.  A fetched comment record:                                        *)
(*   text     identity of the comment text                                 *)
(*   wf       the record has "text", "author" and "likeCount" as Comment   *)
(*            needs them (False: a KeyError or a validation error)         *)
(*   numeric  likeCount / replyCount, where present, are numbers           *)
(*   pol      TextBlob polarity of the text, in hundredths                 *)
(*   likes, replies   comment.get("likeCount", 0), .get("replyCount", 0)   *)
(*   terms    the vectorizer's terms of the cleaned text                   *)
(*   praise   per positive-lexicon keyword found in the text, in lexicon   *)
(*            order: the cleaned sentences that hold the keyword           *)
(*   gripe    the same for the negative lexicon                            *)
(*   asks     per question pattern, in pattern order: the cleaned          *)
(*            fragments after each match                                   *)
(* A sentence or fragment is [id, len]: its identity and its length.       *)

NoText == [id |-> 0, len |-> 0]

Frag(i, n) == [id |-> i, len |-> n]

TermKw(t) == [kind |-> "term", id |-> t, name |-> "", text |-> <<>>]

TagKw(n) == [kind |-> "tag", id |-> 0, name |-> n, text |-> <<>>]

ErrorKw(t) == [kind |-> "error", id |-> 0, name |-> "error: ", text |-> t]

(* Properties of the vectorizer's terms: membership of self.stop_words,    *)
(* the length test, and the mean TF-IDF weight the vectorizer reports.     *)
Terms == 1..13

TermInStopWords(t) == t \in {2}

TermLength(t) == IF t = 3 THEN 2 ELSE 3 + t

TermWeight(t) == <<5, 9, 9, 7, 7, 6, 8, 4, 3, 3, 2, 1, 1>>[t]

-----------------------------------------------------------------------------
(* _analyze_sentiment *)

(* TextBlob(text).sentiment.polarity: the score, in hundredths, or an       *)
(* exception                                                               *)
TextBlobScore(c) == [raises |-> FALSE, polarity |-> c.pol]

(* _analyze_sentiment with inclusive thresholds *)
AnalyzeSentiment_inclusive(score) ==
    IF score.raises THEN "neutral"
    ELSE IF score.polarity >= PositiveThreshold THEN "positive"
    ELSE IF score.polarity <= NegativeThreshold THEN "negative"
    ELSE "neutral"

(* _analyze_sentiment: the bare except answers neutral *)
AnalyzeSentiment(score) ==
    IF score.raises THEN "neutral"
    ELSE IF score.polarity > PositiveThreshold THEN "positive"
    ELSE IF score.polarity < NegativeThreshold THEN "negative"
    ELSE "neutral"

(* the fraction cut to 3 decimals instead of rounded *)
Round3_truncated(count, total) == (1000 * count) \div total

(* round(count / total, 3), in thousandths; a tie goes to the even side *)
Round3(count, total) ==
    LET q == (1000 * count) \div total
        r == (1000 * count) % total
    IN  IF 2 * r > total THEN q + 1
        ELSE IF 2 * r < total THEN q
        ELSE IF q % 2 = 0 THEN q ELSE q + 1

Count(sents, label) == Cardinality({i \in DOMAIN sents : sents[i] = label})

(* _calculate_sentiment_summary dividing by the number of distinct labels  *)
(* (len(sentiment_counts)) instead of the number of labels                 *)
CalculateSentimentSummary_perLabel(sents) ==
    LET distinct == Cardinality(Range(sents))
    IN  IF sents = <<>>
        THEN [positive |-> 0, neutral |-> 1000, negative |-> 0]
        ELSE [positive |-> Round3(Count(sents, "positive"), distinct),
              neutral  |-> Round3(Count(sents, "neutral"), distinct),
              negative |-> Round3(Count(sents, "negative"), distinct)]

(* _calculate_sentiment_summary *)
CalculateSentimentSummary(sents) ==
    IF sents = <<>>
    THEN [positive |-> 0, neutral |-> 1000, negative |-> 0]
    ELSE [positive |-> Round3(Count(sents, "positive"), Len(sents)),
          neutral  |-> Round3(Count(sents, "neutral"), Len(sents)),
          negative |-> Round3(Count(sents, "negative"), Len(sents))]

-----------------------------------------------------------------------------
(* _extract_keywords *)

DocFreq(cs, t) == Cardinality({i \in DOMAIN cs : t \in cs[i].terms})

(* TfidfVectorizer(min_df=2).fit_transform: the terms in at least 2        *)
(* documents, in feature-name order                                        *)
RECURSIVE Ascending(_)
Ascending(S) ==
    IF S = {} THEN <<>>
    ELSE LET m == CHOOSE x \in S : \A y \in S : x <= y
         IN  <<m>> \o Ascending(S \ {m})

(* the vectorizer without min_df: every term of the corpus *)
Vocabulary_everyTerm(cs) == Ascending({t \in Terms : DocFreq(cs, t) >= 1})
Vocabulary(cs) == Ascending({t \in Terms : DocFreq(cs, t) >= 2})

(* keyword_scores.sort(key=score, reverse=True): stable, descending *)
RECURSIVE InsertByWeight(_, _)
InsertByWeight(t, s) ==
    IF s = <<>> THEN <<t>>
    ELSE IF TermWeight(Head(s)) >= TermWeight(t)
         THEN <<Head(s)>> \o InsertByWeight(t, Tail(s))
         ELSE <<t>> \o s

RECURSIVE SortByWeight(_)
SortByWeight(s) ==
    IF s = <<>> THEN <<>>
    ELSE InsertByWeight(s[Len(s)], SortByWeight(SubSeq(s, 1, Len(s) - 1)))

(* the filter loop: skip stop words and short terms, stop at 10 *)
RECURSIVE FilterKeywords(_, _)
FilterKeywords(ranked, keywords) ==
    IF ranked = <<>> THEN keywords
    ELSE LET t == Head(ranked)
             kws == IF ~TermInStopWords(t) /\ TermLength(t) > 2
                    THEN Append(keywords, TermKw(t)) ELSE keywords
         IN  IF Len(kws) >= KeywordCap THEN kws
             ELSE FilterKeywords(Tail(ranked), kws)

ExtractKeywords(cs) ==
    LET cleaned == SelectSeq(cs, LAMBDA c : c.terms # {})
    IN  IF cs = <<>> \/ cleaned = <<>> THEN <<>>
        ELSE IF Vocabulary(cleaned) = <<>> THEN <<>>   \* ValueError, caught
        ELSE Take(FilterKeywords(SortByWeight(Vocabulary(cleaned)), <<>>), KeywordCap)

-----------------------------------------------------------------------------
(* _extract_context: the first sentence holding the keyword whose cleaned  *)
(* length is in (10, 100), else ""                                         *)
RECURSIVE ExtractContext(_)
ExtractContext(sentences) ==
    IF sentences = <<>> THEN NoText
    ELSE IF Head(sentences).len > ContextMin /\ Head(sentences).len < ContextMax
         THEN Head(sentences)
         ELSE ExtractContext(Tail(sentences))

(* the keyword loop of _extract_common_themes over one comment *)
RECURSIVE ThemesOfComment(_, _)
ThemesOfComment(hits, themes) ==
    IF hits = <<>> THEN themes
    ELSE LET context == ExtractContext(Head(hits))
         IN  IF context # NoText /\ context \notin Range(themes)
             THEN IF Len(themes) + 1 >= ThemeCap
                  THEN Append(themes, context)                       \* break
                  ELSE ThemesOfComment(Tail(hits), Append(themes, context))
             ELSE ThemesOfComment(Tail(hits), themes)

(* the comment loop of _extract_common_themes: hitsOf[i] are the lexicon   *)
(* hits of the i-th comment handed in                                      *)
RECURSIVE ThemesOfComments(_, _)
ThemesOfComments(hitsOf, themes) ==
    IF hitsOf = <<>> THEN themes
    ELSE LET t == ThemesOfComment(Head(hitsOf), themes)
         IN  IF Len(t) >= ThemeCap THEN t                            \* break
             ELSE ThemesOfComments(Tail(hitsOf), t)

ExtractCommonThemes(hitsOf) ==
    IF hitsOf = <<>> THEN <<>>
    ELSE ThemesOfComments(Take(hitsOf, ThemeScan), <<>>)

(* _identify_pros_cons *)
IdentifyProsCons(cs, sents) ==
    LET idx == [i \in DOMAIN cs |-> i]
        positive == SelectSeq(idx, LAMBDA i : sents[i] = "positive")
        negative == SelectSeq(idx, LAMBDA i : sents[i] = "negative")
        pros == ExtractCommonThemes([k \in DOMAIN positive |-> cs[positive[k]].praise])
        cons == ExtractCommonThemes([k \in DOMAIN negative |-> cs[negative[k]].gripe])
    IN  [pros |-> Take(pros, ProsConsCap), cons |-> Take(cons, ProsConsCap)]

-----------------------------------------------------------------------------
(* _extract_next_topic_ideas *)

(* for match in matches: ... break once 4 ideas are held *)
RECURSIVE TopicsOfMatches(_, _)
TopicsOfMatches(matches, ideas) ==
    IF matches = <<>> THEN ideas
    ELSE LET topic == Head(matches)
         IN  IF topic.len > TopicMin /\ topic.len < TopicMax
             THEN IF Len(ideas) + 1 >= TopicStop
                  THEN Append(ideas, topic)                          \* break
                  ELSE TopicsOfMatches(Tail(matches), Append(ideas, topic))
             ELSE TopicsOfMatches(Tail(matches), ideas)

(* for pattern in self.question_patterns: the break above leaves only the  *)
(* match loop, so the next pattern is still scanned                        *)
RECURSIVE TopicsOfPatterns(_, _)
TopicsOfPatterns(perPattern, ideas) ==
    IF perPattern = <<>> THEN ideas
    ELSE TopicsOfPatterns(Tail(perPattern), TopicsOfMatches(Head(perPattern), ideas))

RECURSIVE TopicsOfComments(_, _)
TopicsOfComments(cs, ideas) ==
    IF cs = <<>> THEN ideas
    ELSE LET t == TopicsOfPatterns(Head(cs).asks, ideas)
         IN  IF Len(t) >= TopicStop THEN t                           \* break
             ELSE TopicsOfComments(Tail(cs), t)

(* Remove duplicates while preserving order *)
RECURSIVE Unique(_, _)
Unique(s, seen) ==
    IF s = <<>> THEN seen
    ELSE Unique(Tail(s), IF Head(s) \in Range(seen) THEN seen ELSE Append(seen, Head(s)))

ExtractNextTopicIdeas(cs) == Take(Unique(TopicsOfComments(cs, <<>>), <<>>), TopicCap)

-----------------------------------------------------------------------------
(* The three VideoAnalysis variants.  Of the identity fields only videoId  *)
(* is kept: the others are copied from the descriptor the same way.        *)

NeutralSummary == [positive |-> 0, neutral |-> 1000, negative |-> 0]

(* _create_empty_analysis *)
CreateEmptyAnalysis(video) ==
    [videoId |-> video.videoId, commentCount |-> 0,
     sentimentSummary |-> NeutralSummary,
     topKeywords |-> <<>>, pros |-> <<>>, cons |-> <<>>,
     nextTopicIdeas |-> <<>>, comments |-> <<>>]

(* _create_error_analysis with a truncation that keeps the whole message *)
CreateErrorAnalysis_untruncated(video, message) ==
    [videoId |-> video.videoId, commentCount |-> 0,
     sentimentSummary |-> NeutralSummary,
     topKeywords |-> <<ErrorKw(message)>>, pros |-> <<>>, cons |-> <<>>,
     nextTopicIdeas |-> <<>>, comments |-> <<>>]

(* _create_error_analysis *)
CreateErrorAnalysis(video, message) ==
    [videoId |-> video.videoId, commentCount |-> 0,
     sentimentSummary |-> NeutralSummary,
     topKeywords |-> <<ErrorKw(Take(message, ErrorTextCap))>>,
     pros |-> <<>>, cons |-> <<>>,
     nextTopicIdeas |-> <<>>, comments |-> <<>>]

(* analyze_video_comments: any exception inside (a malformed comment       *)
(* record) is caught there and answered with the empty analysis            *)
AnalyzeVideoComments(video, cs) ==
    IF cs = <<>> THEN CreateEmptyAnalysis(video)
    ELSE IF \E i \in DOMAIN cs : ~cs[i].wf THEN CreateEmptyAnalysis(video)
    ELSE LET sents == [i \in DOMAIN cs |-> AnalyzeSentiment(TextBlobScore(cs[i]))]
             pc_   == IdentifyProsCons(cs, sents)
         IN  [videoId |-> video.videoId, commentCount |-> Len(cs),
              sentimentSummary |-> CalculateSentimentSummary(sents),
              topKeywords |-> ExtractKeywords(cs),
              pros |-> pc_.pros, cons |-> pc_.cons,
              nextTopicIdeas |-> ExtractNextTopicIdeas(cs),
              comments |-> [i \in DOMAIN cs |->
                              [text |-> cs[i].text, sentiment |-> sents[i],
                               likeCount |-> cs[i].likes]]]

-----------------------------------------------------------------------------
(* _enhance_with_batch_metrics *)

HighEngagement == TagKw("high engagement")
ActiveDiscussion == TagKw("active discussion")
ViralComments == TagKw("viral comments")

EngagementKeywords(cs) ==
    LET total_likes   == SumSeq([i \in DOMAIN cs |-> cs[i].likes])
        total_replies == SumSeq([i \in DOMAIN cs |-> cs[i].replies])
        viral == Cardinality({i \in DOMAIN cs : cs[i].likes > ViralLikes})
    IN  (IF total_likes > HighLikes * Len(cs) THEN <<HighEngagement>> ELSE <<>>)
        \o (IF total_replies > HighReplies * Len(cs) THEN <<ActiveDiscussion>> ELSE <<>>)
        \o (IF viral > ViralCount THEN <<ViralComments>> ELSE <<>>)

(* The iteration order of a set of strings follows their hashes, which     *)
(* differ from process to process: the order is that of HashOf under the   *)
(* process' seed.                                                          *)
KeyOf(k) ==
    IF k.kind = "term" THEN k.id
    ELSE IF k = HighEngagement THEN 14
    ELSE IF k = ActiveDiscussion THEN 15
    ELSE 16

HashOf(k, seed) == (KeyOf(k) * (4 * seed + 1) + 7 * seed) % 23

RECURSIVE ListOfSet(_, _)
ListOfSet(S, seed) ==
    IF S = {} THEN <<>>
    ELSE LET m == CHOOSE x \in S : \A y \in S : HashOf(x, seed) <= HashOf(y, seed)
         IN  <<m>> \o ListOfSet(S \ {m}, seed)

(* sum() over the like and reply counts raises TypeError on a non-number *)
EnhanceRaises(cs) == \E i \in DOMAIN cs : ~cs[i].numeric

(* the merge without the [:10] slice *)
EnhanceWithBatchMetrics_uncapped(analysis, cs, seed) ==
    IF cs = <<>> THEN analysis
    ELSE [analysis EXCEPT !.topKeywords =
            ListOfSet(Range(analysis.topKeywords \o EngagementKeywords(cs)), seed)]

(* lines 185-214; top_engaged is computed and not used *)
EnhanceWithBatchMetrics(analysis, cs, seed) ==
    IF cs = <<>> THEN analysis
    ELSE [analysis EXCEPT !.topKeywords =
            Take(ListOfSet(Range(analysis.topKeywords \o EngagementKeywords(cs)), seed),
                 EnhancedCap)]

-----------------------------------------------------------------------------
(* Inputs: the comment records and comment lists a fetch may give *)

Comment(t, w, n, p, l, r, ts, pr, gr, as) ==
    [text |-> t, wf |-> w, numeric |-> n, pol |-> p, likes |-> l, replies |-> r,
     terms |-> ts, praise |-> pr, gripe |-> gr, asks |-> as]

Plain == Comment(1, TRUE, TRUE, 0, 0, 0, {1, 2, 3}, <<>>, <<>>, <<>>)

Praise ==
    Comment(2, TRUE, TRUE, 50, 11, 0, Terms,
            << <<Frag(1, 20)>>, <<Frag(1, 20)>>, <<Frag(2, 8), Frag(3, 30)>>,
               <<Frag(4, 120)>>, <<Frag(5, 15)>>, <<Frag(6, 40)>>,
               <<Frag(7, 50)>>, <<Frag(8, 60)>> >>,
            <<>>, <<>>)

Gripe ==
    Comment(3, TRUE, TRUE, -40, 60, 0, Terms, <<>>,
            << <<Frag(11, 20)>>, <<Frag(12, 20)>>, <<Frag(13, 20)>>,
               <<Frag(14, 20)>>, <<Frag(15, 20)>>, <<Frag(16, 20)>> >>,
            <<>>)

Request ==
    Comment(4, TRUE, TRUE, 0, 0, 0, {4, 5}, <<>>, <<>>,
            << <<Frag(21, 10), Frag(22, 3), Frag(23, 12), Frag(24, 20)>>,
               <<Frag(25, 20), Frag(21, 10)>>,
               <<Frag(26, 20)>>,
               <<Frag(27, 60), Frag(28, 20)>> >>)

NoAuthor == Comment(5, FALSE, TRUE, 50, 11, 0, {1}, <<>>, <<>>, <<>>)

BadReplies == Comment(6, TRUE, FALSE, 0, 0, 0, {1}, <<>>, <<>>, <<>>)

Chatty == Comment(7, TRUE, TRUE, 20, 0, 3, {6, 7}, << <<Frag(1, 20)>> >>, <<>>, <<>>)

(* what YouTubeService.get_video_comments can build from a 200 response:   *)
(* text, author, likeCount and publishedAt are always set, replyCount never *)
ApiPayloads ==
    { <<>>, <<Plain>>, <<Praise>>, <<Plain, Plain>>, <<Praise, Gripe, Request>> }

(* what only an injected fetcher can return *)
Payloads == { <<NoAuthor>>, <<BadReplies>>, <<Chatty, NoAuthor>>, <<Chatty>> }

(* str(e) of the exceptions the collaborators raise *)
FetchErrors == { Text(1, 5), Text(2, 60) }
SinkErrors == { Text(3, 50) }
SleepErrors == { Text(6, 51) }
AsyncGenTypeError == Text(4, 58)   \* object async_generator can't be used in 'await' expression
SumTypeError == Text(5, 49)        \* unsupported operand type(s) for +: 'int' and 'str'

(* the HTTP exchange of get_video_comments *)
Exchanges ==
    { [raises |-> FALSE, code |-> 200, items |-> p] : p \in ApiPayloads }
    \cup { [raises |-> FALSE, code |-> 403, items |-> <<>>],
           [raises |-> FALSE, code |-> 500, items |-> <<Praise>>] }
    \cup { [raises |-> TRUE, code |-> 200, items |-> <<Praise>>] }

NoExchange == [raises |-> FALSE, code |-> 0, items |-> <<>>]

(* get_video_comments without the test for a status other than 200 *)
GetVideoComments_only403(x) ==
    IF x.raises THEN <<>>
    ELSE IF x.code = 403 THEN <<>>
    ELSE x.items

(* YouTubeService.get_video_comments: a raise before the body is read      *)
(* (network, JSON, a missing key) gives [], as does any status but 200     *)
GetVideoComments(x) ==
    IF x.raises THEN <<>>              \* except Exception: return []
    ELSE IF x.code = 403 THEN <<>>
    ELSE IF x.code # 200 THEN <<>>
    ELSE x.items

-----------------------------------------------------------------------------
(* The callers.  "sync" is analyze_youtube_comments with batch_mode (no    *)
(* progress_callback), "stream" is generate_stream (its progress_callback  *)
(* is an async generator function), "direct" is a call with an awaitable   *)
(* sink and any fetcher.                                                   *)

ProgressCallback ==
    CASE caller = "sync" -> "none"
      [] caller = "stream" -> "asyncgen"
      [] OTHER -> "awaitable"

(* the endpoints fetch with YouTubeService; a direct caller passes any     *)
(* youtube_service, YouTubeService included                                *)
Fetchers == IF caller = "direct" THEN {"youtube", "injected"} ELSE {"youtube"}

NoStatus ==
    [current_video |-> 0, total_videos |-> 0, video_id |-> 0, status |-> "",
     comments_fetched |-> <<>>, error_message |-> <<>>]

(* BatchProcessingStatus(...): an Optional field is <<>> or <<value>> *)
BatchProcessingStatus(i, st, msg) ==
    [current_video |-> i, total_videos |-> Len(videos), video_id |-> videos[i].videoId,
     status |-> st, comments_fetched |-> <<>>, error_message |-> msg]

NoResponse == [kind |-> "none", code |-> 0, videos |-> <<>>, total_processed |-> 0,
               successful_analyses |-> 0, failed_analyses |-> 0]

HttpError(c) == [NoResponse EXCEPT !.kind = "http_error", !.code = c]

(* BatchAnalysisResponse of analyze_youtube_comments *)
SyncResponse(rs) ==
    LET ok == Len(SelectSeq(rs, LAMBDA r : r.commentCount > 0 \/ Len(r.topKeywords) > 0))
    IN  [kind |-> "batch", code |-> 200, videos |-> rs, total_processed |-> Len(rs),
         successful_analyses |-> ok, failed_analyses |-> Len(rs) - ok]

(* BatchAnalysisResponse of generate_stream *)
StreamResponse(rs) ==
    LET ok == Len(SelectSeq(rs, LAMBDA r : r.commentCount > 0))
    IN  [kind |-> "batch", code |-> 200, videos |-> rs, total_processed |-> Len(rs),
         successful_analyses |-> ok, failed_analyses |-> Len(rs) - ok]

StreamElement(k, body) == [kind |-> k, body |-> body]

-----------------------------------------------------------------------------
(* llm_analyzer.py.  A string is the sequence of its characters; "*" is an *)
(* emoji, " " whitespace.                                                  *)

openrouter_models ==
    << "mistralai/mistral-7b-instruct", "openchat/openchat-3.5-0106",
       "huggingfaceh4/zephyr-7b-alpha", "meta-llama/llama-2-7b-chat",
       "google/gemma-7b-it", "nousresearch/nous-capybara-7b",
       "gryphe/mythomist-7b", "openrouter/cinematika-7b-v2" >>

(* remove_emoji *)
RemoveEmoji(text) == SelectSeq(text, LAMBDA ch : ch # "*")

(* re.sub(r'\s+', ' ', text): every run of spaces becomes one space; the   *)
(* two halves are collapsed and a run across the cut is joined             *)
RECURSIVE CollapseSpaces(_)
CollapseSpaces(text) ==
    IF Len(text) < 2 THEN text
    ELSE LET half  == Len(text) \div 2
             left  == CollapseSpaces(SubSeq(text, 1, half))
             right == CollapseSpaces(SubSeq(text, half + 1, Len(text)))
         IN  IF left[Len(left)] = " " /\ right[1] = " "
             THEN left \o Tail(right)
             ELSE left \o right

RECURSIVE StripLeft(_)
StripLeft(text) ==
    IF text # <<>> /\ Head(text) = " " THEN StripLeft(Tail(text)) ELSE text

Reverse(text) == [i \in 1..Len(text) |-> text[Len(text) + 1 - i]]

(* str.strip() *)
Strip(text) == Reverse(StripLeft(Reverse(StripLeft(text))))

(* simple_text *)
SimpleText(text) == Strip(CollapseSpaces(RemoveEmoji(text)))

(* len(text.split()) *)
WordCount(text) ==
    Cardinality({i \in DOMAIN text : text[i] # " " /\ (i = 1 \/ text[i - 1] = " ")})

GoodVideo == <<"g", "o", "o", "d", " ", "v", "i", "d">>
Nice == <<"n", "i", "c", "e">>
Bien == <<"b", "i", "e", "n">>
LongText == [i \in 1..201 |-> IF i % 2 = 1 THEN "a" ELSE " "]

(* the texts langdetect calls 'en'; is_english answers False for the       *)
(* others and when detect raises                                           *)
EnglishTexts == {GoodVideo, Nice, LongText}

IsEnglish(text) == text \in EnglishTexts

(* lines 54-61; seen holds exactly the members of sanitized_comments *)
RECURSIVE SanitizeComments(_, _)
SanitizeComments(cs, kept) ==
    IF cs = <<>> THEN kept
    ELSE LET c_clean == SimpleText(Head(cs))
         IN  SanitizeComments(Tail(cs),
                 IF /\ c_clean # <<>>
                    /\ c_clean \notin Range(kept)
                    /\ IsEnglish(c_clean)
                    /\ WordCount(c_clean) <= WordCap
                 THEN Append(kept, c_clean) ELSE kept)

(* the comment lists handed to the chain: none, only an emoji, a foreign   *)
(* and an overlong comment, one good comment, a good comment with its      *)
(* duplicate after cleaning, an emoji before a good comment                *)
LlmInputs ==
    { <<>>,
      << <<"*">> >>,
      << Bien, LongText >>,
      << GoodVideo >>,
      << GoodVideo, <<" ", "*">> \o GoodVideo \o <<" ", " ">>, Nice >>,
      << <<"*", " ">>, Nice >> }

LlmVideo == [video_id |-> 1]

NoReason == <<>>

(* base_response with the two counts exchanged *)
BaseResponse_countsSwapped(video, cs, sanitized) ==
    [video_id |-> video.video_id, pros |-> <<>>, cons |-> <<>>, next_hot_topic |-> <<>>,
     comments_fetched |-> Len(sanitized), comments_sanitized |-> Len(cs),
     reason |-> NoReason]

(* base_response, lines 66-77; the key reason is absent (<<>>) or set *)
BaseResponse(video, cs, sanitized) ==
    [video_id |-> video.video_id, pros |-> <<>>, cons |-> <<>>, next_hot_topic |-> <<>>,
     comments_fetched |-> Len(cs), comments_sanitized |-> Len(sanitized),
     reason |-> NoReason]

(* line 80 with the two reasons exchanged *)
NoCommentsReason_swapped(comments_fetched) ==
    IF comments_fetched > 0
    THEN "No comments fetched from API."
    ELSE "No valid comments found after filtering."

(* line 80 *)
NoCommentsReason(comments_fetched) ==
    IF comments_fetched > 0
    THEN "No valid comments found after filtering."
    ELSE "No comments fetched from API."

(* "\n".join(items) *)
RECURSIVE Join(_)
Join(items) ==
    IF items = <<>> THEN <<>>
    ELSE IF Len(items) = 1 THEN items[1]
    ELSE items[1] \o <<"\n">> \o Join(Tail(items))

(* A model's content, by what the parse finds in it: parse is "json" when   *)
(* the text between the first { and the last } loads as an object, "text"   *)
(* when there are no braces or json.loads fails (the regex path), "raises"  *)
(* when the JSON path raises something else (pros: null, a number as an     *)
(* item); pros, cons, next are the items the path finds.                    *)
Content(p, a, b, c) == [blank |-> FALSE, parse |-> p, pros |-> a, cons |-> b, next |-> c]

BlankContent == [blank |-> TRUE, parse |-> "text", pros |-> <<>>, cons |-> <<>>, next |-> <<>>]

(* extract_sections_from_text *)
ExtractSectionsFromText(content) ==
    IF content.parse = "raises"
    THEN [raises |-> TRUE, pros |-> <<>>, cons |-> <<>>, next_hot_topic |-> <<>>]
    ELSE IF content.parse = "json"
    THEN [raises |-> FALSE,
          pros |-> Join(SelectSeq([i \in DOMAIN content.pros |-> Strip(content.pros[i])],
                                  LAMBDA x : x # <<>>)),
          cons |-> Join(SelectSeq(content.cons,
                                  LAMBDA x : Strip(x) # <<>>
                                             /\ Strip(x) \notin Range(content.next))),
          next_hot_topic |-> Join(SelectSeq(content.next, LAMBDA x : Strip(x) # <<>>))]
    ELSE [raises |-> FALSE,
          pros |-> Join(SelectSeq(content.pros, LAMBDA x : x # <<>>)),
          cons |-> Join(SelectSeq(content.cons,
                                  LAMBDA x : x # <<>> /\ x \notin Range(content.next))),
          next_hot_topic |-> Join(SelectSeq(content.next, LAMBDA x : x # <<>>))]

(* what requests.post gives: an exception, or a response with a status,    *)
(* a body that response.json()["choices"][0]["message"]["content"] reads   *)
(* ("ok") or fails on ("malformed"), and the text of the response          *)
Reply(r, st, b, c, t) == [raises |-> r, status |-> st, body |-> b, content |-> c, text |-> t]

NoReply == Reply(FALSE, 0, "malformed", BlankContent, "")

Slow == <<"s", "l", "o", "w">>
More == <<"m", "o", "r", "e">>

Replies ==
    { Reply(TRUE, 0, "malformed", BlankContent, "connection reset"),
      Reply(FALSE, 200, "malformed", BlankContent, "<html>"),
      Reply(FALSE, 200, "ok", BlankContent, "{}"),
      Reply(FALSE, 200, "ok", Content("raises", <<>>, <<>>, <<>>), "{}"),
      Reply(FALSE, 200, "ok", Content("text", <<>>, <<>>, <<>>), "{}"),
      Reply(FALSE, 200, "ok", Content("json", << <<" ">> >>, << <<" ">> \o More >>, << More >>), "{}"),
      Reply(FALSE, 200, "ok", Content("json", << Nice >>, << Slow >>, << More >>), "{}"),
      Reply(FALSE, 200, "ok",
            Content("json", << Nice >>, << More \o <<" ">>, Slow >>, << More \o <<" ">> >>), "{}"),
      Reply(FALSE, 200, "ok", Content("text", <<>>, << Slow, More >>, <<>>), "{}"),
      Reply(FALSE, 429, "malformed", BlankContent, "rate limited"),
      Reply(FALSE, 403, "malformed", BlankContent, "forbidden"),
      Reply(FALSE, 500, "malformed", BlankContent, "server error"),
      Reply(FALSE, 401, "malformed", BlankContent, "unauthorized") }

NoSections == [raises |-> FALSE, pros |-> <<>>, cons |-> <<>>, next_hot_topic |-> <<>>]

Outcome(ctl, sections, err) == [control |-> ctl, sections |-> sections, last_error |-> err]

(* the loop body without the check that all extracted sections are empty *)
Attempt_emptyAccepted(x) ==
    IF x.raises THEN Outcome("continue", NoSections, x.text)
    ELSE IF x.status = 200
    THEN IF x.body = "malformed" THEN Outcome("continue", NoSections, "exception")
         ELSE IF x.content.blank
         THEN Outcome("continue", NoSections, "Empty response from LLM API")
         ELSE LET result == ExtractSectionsFromText(x.content)
              IN  IF result.raises THEN Outcome("continue", NoSections, "exception")
                  ELSE Outcome("return", result, "")
    ELSE IF x.status \in {429, 403} THEN Outcome("continue", NoSections, x.text)
    ELSE Outcome("break", NoSections, x.text)

(* the loop body with 403 handled like any other error status *)
Attempt_only429(x) ==
    IF x.raises THEN Outcome("continue", NoSections, x.text)
    ELSE IF x.status = 200
    THEN IF x.body = "malformed" THEN Outcome("continue", NoSections, "exception")
         ELSE IF x.content.blank
         THEN Outcome("continue", NoSections, "Empty response from LLM API")
         ELSE LET result == ExtractSectionsFromText(x.content)
              IN  IF result.raises THEN Outcome("continue", NoSections, "exception")
                  ELSE IF result.pros = <<>> /\ result.cons = <<>> /\ result.next_hot_topic = <<>>
                  THEN Outcome("continue", NoSections, "All extracted sections are empty")
                  ELSE Outcome("return", result, "")
    ELSE IF x.status = 429 THEN Outcome("continue", NoSections, x.text)
    ELSE Outcome("break", NoSections, x.text)

(* the loop body with no return after base_response.update(result) *)
Attempt_noReturn(x) ==
    IF x.raises THEN Outcome("continue", NoSections, x.text)
    ELSE IF x.status = 200
    THEN IF x.body = "malformed" THEN Outcome("continue", NoSections, "exception")
         ELSE IF x.content.blank
         THEN Outcome("continue", NoSections, "Empty response from LLM API")
         ELSE LET result == ExtractSectionsFromText(x.content)
              IN  IF result.raises THEN Outcome("continue", NoSections, "exception")
                  ELSE IF result.pros = <<>> /\ result.cons = <<>> /\ result.next_hot_topic = <<>>
                  THEN Outcome("continue", NoSections, "All extracted sections are empty")
                  ELSE Outcome("continue", result, "")
    ELSE IF x.status \in {429, 403} THEN Outcome("continue", NoSections, x.text)
    ELSE Outcome("break", NoSections, x.text)

(* the loop body with the except clause narrowed to network errors *)
Attempt_parseUncaught(x) ==
    IF x.raises THEN Outcome("continue", NoSections, x.text)
    ELSE IF x.status = 200
    THEN IF x.body = "malformed" THEN Outcome("raise", NoSections, "exception")
         ELSE IF x.content.blank
         THEN Outcome("continue", NoSections, "Empty response from LLM API")
         ELSE LET result == ExtractSectionsFromText(x.content)
              IN  IF result.raises THEN Outcome("raise", NoSections, "exception")
                  ELSE IF result.pros = <<>> /\ result.cons = <<>> /\ result.next_hot_topic = <<>>
                  THEN Outcome("continue", NoSections, "All extracted sections are empty")
                  ELSE Outcome("return", result, "")
    ELSE IF x.status \in {429, 403} THEN Outcome("continue", NoSections, x.text)
    ELSE Outcome("break", NoSections, x.text)

(* lines 102-140: what one pass of the loop body makes of the reply; every *)
(* exception inside the try is caught and answered with continue           *)
Attempt(x) ==
    IF x.raises THEN Outcome("continue", NoSections, x.text)
    ELSE IF x.status = 200
    THEN IF x.body = "malformed" THEN Outcome("continue", NoSections, "exception")
         ELSE IF x.content.blank
         THEN Outcome("continue", NoSections, "Empty response from LLM API")
         ELSE LET result == ExtractSectionsFromText(x.content)
              IN  IF result.raises THEN Outcome("continue", NoSections, "exception")
                  ELSE IF result.pros = <<>> /\ result.cons = <<>> /\ result.next_hot_topic = <<>>
                  THEN Outcome("continue", NoSections, "All extracted sections are empty")
                  ELSE Outcome("return", result, "")
    ELSE IF x.status \in {429, 403} THEN Outcome("continue", NoSections, x.text)
    ELSE Outcome("break", NoSections, x.text)

-----------------------------------------------------------------------------
(* The LLM-only service: event_stream of src/main.py and its collaborators *)

MaxEventVideos == 2

(* search_youtube_videos: a list of videos, or an exception of requests.get *)
SearchResults ==
    {[raises |-> TRUE, videos |-> <<>>]}
    \cup {[raises |-> FALSE, videos |-> [i \in 1..n |-> [video_id |-> i]]] :
             n \in 0..MaxEventVideos}

(* an item of the commentThreads response: its textOriginal, or an item     *)
(* without the snippet keys                                                 *)
Item(ok, text) == [ok |-> ok, text |-> text]

(* what requests.get gives fetch_top_comments: an exception, or a status    *)
(* and a body that is JSON ("ok") or not ("malformed")                      *)
CommentsExchange(r, st, b, items) ==
    [raises |-> r, status |-> st, body |-> b, items |-> items]

CommentsExchanges ==
    { CommentsExchange(TRUE, 0, "ok", <<>>),
      CommentsExchange(FALSE, 403, "malformed", <<>>),
      CommentsExchange(FALSE, 200, "malformed", <<>>),
      CommentsExchange(FALSE, 200, "ok", <<>>),
      CommentsExchange(FALSE, 200, "ok",
                       << Item(TRUE, GoodVideo \o <<" ">>), Item(FALSE, <<>>),
                          Item(TRUE, <<" ">>) >>),
      CommentsExchange(FALSE, 200, "ok", << Item(TRUE, <<"*">>) >>) }

(* the item loop of fetch_top_comments: KeyError and TypeError are skipped  *)
RECURSIVE TextsOf(_)
TextsOf(items) ==
    IF items = <<>> THEN <<>>
    ELSE (IF Head(items).ok /\ Strip(Head(items).text) # <<>>
          THEN <<Strip(Head(items).text)>> ELSE <<>>) \o TextsOf(Tail(items))

(* fetch_top_comments with a token: nothing around requests.get and         *)
(* resp.json() catches what they raise                                      *)
FetchTopComments(x) ==
    IF x.raises THEN [raises |-> TRUE, comments |-> <<>>]
    ELSE IF x.status # 200 THEN [raises |-> FALSE, comments |-> <<>>]
    ELSE IF x.body = "malformed" THEN [raises |-> TRUE, comments |-> <<>>]
    ELSE [raises |-> FALSE, comments |-> TextsOf(x.items)]

(* the records llm_analyzer.analyze_video_comments can return for a video   *)
(* and its comments: the early return, the record of a successful model,    *)
(* or the record after all models failed                                    *)
AnalysisOutcomes(video, cs) ==
    LET sanitized == SanitizeComments(cs, <<>>)
        base      == BaseResponse(video, cs, sanitized)
    IN  IF sanitized = <<>>
        THEN {[base EXCEPT !.reason = <<NoCommentsReason(base.comments_fetched)>>]}
        ELSE {[base EXCEPT !.reason = <<"LLM analysis failed for all models.">>]}
             \cup {[base EXCEPT !.pros = Attempt(x).sections.pros,
                                !.cons = Attempt(x).sections.cons,
                                !.next_hot_topic = Attempt(x).sections.next_hot_topic] :
                      x \in {y \in Replies : Attempt(y).control = "return"}}

-----------------------------------------------------------------------------
(* RateLimiter (app/utils/rate_limiter.py) *)

window_size == 60

(* settings.MAX_REQUESTS_PER_MINUTE: 60 unless the environment sets it; the *)
(* model takes a small limit                                                *)
max_requests == 2

(* how many check_rate_limit calls a behaviour makes *)
MaxChecks == 5

(* how far the clock moves between two calls, in seconds *)
ClockSteps == {0, 1, window_size - 1, window_size}

Clients == {"a", "b"}

(* check_rate_limit with the call recorded before the limit is tested *)
CheckRateLimit_recordsRejected(reqs, current_time) ==
    LET recent == SelectSeq(reqs, LAMBDA req_time : current_time - req_time < window_size)
    IN  IF Len(recent) >= max_requests
        THEN [raises |-> TRUE, requests |-> Append(recent, current_time)]
        ELSE [raises |-> FALSE, requests |-> Append(recent, current_time)]

(* check_rate_limit, lines 18-36: clean, test, record *)
CheckRateLimit(reqs, current_time) ==
    LET recent == SelectSeq(reqs, LAMBDA req_time : current_time - req_time < window_size)
    IN  IF Len(recent) >= max_requests
        THEN [raises |-> TRUE, requests |-> recent]
        ELSE [raises |-> FALSE, requests |-> Append(recent, current_time)]

-----------------------------------------------------------------------------
(* Initial states *)

(* --- comment texts by their vectorizer terms (_extract_keywords) --- *)

Worded(t, terms) == Comment(t, TRUE, TRUE, 0, 0, 0, terms, <<>>, <<>>, <<>>)

(* a text that cleans to nothing, one with every term, Plain (terms 1..3,   *)
(* of which 2 is a domain stop word and 3 too short), one with two terms,   *)
(* and one with nothing but the stop word and the short term                *)
WordedComments ==
    { Worded(41, {}), Worded(42, Terms), Plain, Worded(43, {4, 5}), Worded(44, {2, 3}) }

MaxWorded == 3

WordedLists == UNION {[1..n -> WordedComments] : n \in 0..MaxWorded}

(* --- comments that ask for topics (_extract_next_topic_ideas) --- *)

(* a comment of which only the matches of the question patterns matter:     *)
(* asks[p] are the cleaned fragments after the matches of the p-th pattern  *)
(* that matches, in text order                                              *)
Asking(t, asks) == Comment(t, TRUE, TRUE, 0, 0, 0, {}, <<>>, <<>>, asks)

AskComments ==
    { Asking(31, << <<Frag(31, 10), Frag(31, 10), Frag(32, 12), Frag(33, 20)>> >>),
      Asking(32, << <<Frag(34, 20)>> >>),
      Asking(33, << <<Frag(31, 10)>>, <<Frag(35, 5)>> >>),
      Asking(34, << <<Frag(36, 50)>>, <<Frag(32, 6)>> >>),
      Request }

MaxAsking == 3

AskLists == UNION {[1..n -> AskComments] : n \in 0..MaxAsking}

(* --- the filters query parameter (app/main.py, app/models.py) --- *)

(* a field the JSON object does not carry *)
Absent == "absent"

(* json.loads(filters): what the text decodes to; "invalid" raises           *)
(* JSONDecodeError, "object" gives a dict with the fields shown              *)
FiltersText(json, upload_date, duration, sort_by) ==
    [json |-> json, upload_date |-> upload_date, duration |-> duration, sort_by |-> sort_by]

(* the parameter left out, or the empty string: `if filters` is false *)
NoFilters == FiltersText("none", Absent, Absent, Absent)

FiltersInputs ==
    {NoFilters}
    \cup {FiltersText(j, Absent, Absent, Absent) :
             j \in {"invalid", "array", "number", "string", "null"}}
    \cup {FiltersText("object", u, d, s) :
             u \in {Absent, "week", "fortnight"},
             d \in {Absent, "short", "tiny"},
             s \in {Absent, "date", "likes"}}

(* SearchFilters built from the decoded dict: the Literal fields; a field    *)
(* left out takes its default                                                *)
SearchFilters(f) ==
    [ok |-> /\ f.upload_date \in {Absent, "hour", "today", "week", "month", "year"}
            /\ f.duration \in {Absent, "short", "medium", "long"}
            /\ f.sort_by \in {Absent, "relevance", "date", "viewCount", "rating"},
     upload_date |-> IF f.upload_date = Absent THEN <<>> ELSE <<f.upload_date>>,
     duration |-> IF f.duration = Absent THEN <<>> ELSE <<f.duration>>,
     sort_by |-> IF f.sort_by = Absent THEN "relevance" ELSE f.sort_by]

(* the filters block of both endpoints: "none" (no filters), "ok", "caught"  *)
(* (JSONDecodeError or ValueError, the inner handler) or "uncaught"          *)
(* (TypeError: the argument after ** is not a mapping)                       *)
ParseFilters(f) ==
    CASE f.json = "none" -> "none"
      [] f.json = "invalid" -> "caught"
      [] f.json = "object" -> IF SearchFilters(f).ok THEN "ok" ELSE "caught"
      [] OTHER -> "uncaught"

(* youtube_service.search_videos: a list of videos, or an HTTPException *)
SearchOutcomes ==
    {[raises |-> FALSE, code |-> 0, videos |-> vs] : vs \in {<<>>, <<1>>, <<1, 2>>}}
    \cup {[raises |-> TRUE, code |-> c, videos |-> <<>>] : c \in {403, 429, 500}}

HashSeeds == {0, 1, 2}

VideoLists == { [i \in 1..n |-> [videoId |-> i]] : n \in 0..MaxVideos }

InitSentiment ==
    /\ sentiments = <<>>
    /\ summary = CalculateSentimentSummary(<<>>)

(* no _analyze_sentiment call yet *)
InitScore ==
    /\ scored = <<>>
    /\ sentiment = <<>>

(* no result counted yet *)
InitCounts ==
    /\ counted = <<>>
    /\ syncCounts = SyncResponse(<<>>)
    /\ streamCounts = StreamResponse(<<>>)

(* llm_analyzer.analyze_video_comments not called yet *)
InitLLM ==
    /\ llm_pc = "idle"
    /\ llm_comments = <<>>
    /\ sanitized_comments = <<>>
    /\ base_response = BaseResponse(LlmVideo, <<>>, <<>>)
    /\ last_error = <<>>
    /\ model_index = 0
    /\ posted = <<>>
    /\ reply = NoReply

(* no request received yet *)
InitRequest ==
    /\ req_pc = "idle"
    /\ req_caller = "sync"
    /\ filters = NoFilters
    /\ search_filters = <<>>
    /\ searches = <<>>
    /\ answer = <<>>

InitTopics ==
    /\ comment_texts = <<>>
    /\ unique_topics = <<>>

InitKeywords ==
    /\ keyword_texts = <<>>
    /\ top_keywords = <<>>

(* event_stream not started *)
InitEvents ==
    /\ ev_pc = "idle"
    /\ ev_videos = <<>>
    /\ ev_idx = 0
    /\ ev_comments = <<>>
    /\ ev_analysis = BaseResponse(LlmVideo, <<>>, <<>>)
    /\ ev_inserts = <<>>
    /\ ev_yielded = <<>>

(* no status object built yet *)
InitSink ==
    /\ heap = <<>>
    /\ held = <<>>

(* RateLimiter.__init__ *)
InitLimiter ==
    /\ clock = 0
    /\ requests = <<>>
    /\ admitted = <<>>
    /\ rejected = <<>>

InitExtra ==
    InitRequest /\ InitTopics /\ InitKeywords /\ InitEvents /\ InitSink /\ InitLimiter

InitOther == InitSentiment /\ InitScore /\ InitCounts /\ InitLLM /\ InitExtra

InitBatch ==
    /\ caller \in {"sync", "stream", "direct"}
    /\ hashSeed \in HashSeeds
    /\ videos \in VideoLists
    /\ pc = "start"
    /\ index = 0
    /\ comments = <<>>
    /\ status = NoStatus
    /\ error = <<>>
    /\ results = <<>>
    /\ emitted = <<>>
    /\ stream = <<>>
    /\ response = NoResponse
    /\ faults = [i \in DOMAIN videos |-> <<>>]
    /\ fetched = [i \in DOMAIN videos |->
                    [asked |-> FALSE, returned |-> FALSE, via |-> NoExchange, comments |-> <<>>]]
    /\ delays = <<>>

Init == InitBatch /\ InitOther

-----------------------------------------------------------------------------
(* analyze_videos_batch, one action per step *)

AfterCompleted == IF index < Len(videos) THEN "sleep" ELSE "for"

(* an exception raised inside the try block of the loop body *)
RaiseInTry(step, msg) ==
    /\ pc' = "except"
    /\ error' = msg
    /\ faults' = [faults EXCEPT ![index] = Append(@, [step |-> step, msg |-> msg])]

(* await progress_callback(rec): the call is made; an awaitable sink takes *)
(* the record or raises, an async generator cannot be awaited              *)
(* the argument is the object itself: a sink that takes it holds a          *)
(* reference to the last object built                                       *)
Deliver(rec, step, next) ==
    \/ /\ ProgressCallback = "awaitable"
       /\ emitted' = Append(emitted, [rec |-> rec, taken |-> TRUE])
       /\ held' = Append(held, Len(heap'))
       /\ pc' = next
       /\ UNCHANGED <<error, faults>>
    \/ /\ ProgressCallback = "awaitable"
       /\ emitted' = Append(emitted, [rec |-> rec, taken |-> FALSE])
       /\ held' = held
       /\ \E msg \in SinkErrors : RaiseInTry(step, msg)
    \/ /\ ProgressCallback = "asyncgen"
       /\ emitted' = Append(emitted, [rec |-> rec, taken |-> FALSE])
       /\ held' = held
       /\ RaiseInTry(step, AsyncGenTypeError)

(* the endpoint up to the call of analyze_videos_batch *)
Start ==
    /\ pc = "start"
    /\ IF caller = "sync" /\ videos = <<>>
       THEN /\ response' = HttpError(404)
            /\ pc' = "done"
            /\ UNCHANGED stream
       ELSE IF caller = "stream" /\ videos = <<>>
       THEN /\ stream' = Append(stream, StreamElement("error", NoResponse))
            /\ pc' = "done"
            /\ UNCHANGED response
       ELSE /\ pc' = "for"
            /\ UNCHANGED <<stream, response>>
    /\ UNCHANGED <<caller, hashSeed, videos, index, comments, status, error, results,
                   emitted, faults, fetched, delays, otherVars>>

(* for index, video in enumerate(videos, 1) *)
For ==
    /\ pc = "for"
    /\ IF index < Len(videos)
       THEN /\ index' = index + 1
            /\ pc' = IF ProgressCallback # "none" THEN "emit_fetching" ELSE "fetch"
       ELSE /\ pc' = "return"
            /\ UNCHANGED index
    /\ UNCHANGED <<caller, hashSeed, videos, comments, status, error, results,
                   emitted, stream, response, faults, fetched, delays, otherVars>>

(* lines 112-120 *)
EmitFetching ==
    /\ pc = "emit_fetching"
    /\ status' = BatchProcessingStatus(index, "fetching_comments", <<>>)
    /\ heap' = Append(heap, status')
    /\ Deliver(status', "emit_fetching", "fetch")
    /\ UNCHANGED <<caller, hashSeed, videos, index, comments, results,
                   stream, response, fetched, delays, besideSink>>

(* lines 123-127 with YouTubeService: never raises *)
FetchYouTube ==
    /\ pc = "fetch"
    /\ "youtube" \in Fetchers
    /\ \E x \in Exchanges :
          /\ comments' = GetVideoComments(x)
          /\ fetched' = [fetched EXCEPT ![index] =
                           [asked |-> TRUE, returned |-> TRUE, via |-> x,
                            comments |-> comments']]
    /\ pc' = IF ProgressCallback # "none" THEN "emit_analyzing" ELSE "analyze"
    /\ UNCHANGED <<caller, hashSeed, videos, index, status, error, results,
                   emitted, stream, response, faults, delays, otherVars>>

(* lines 123-127 with an injected fetcher: returns a list *)
FetchInjected ==
    /\ pc = "fetch"
    /\ "injected" \in Fetchers
    /\ \E p \in Payloads :
          /\ comments' = p
          /\ fetched' = [fetched EXCEPT ![index] =
                           [asked |-> TRUE, returned |-> TRUE, via |-> NoExchange,
                            comments |-> p]]
    /\ pc' = IF ProgressCallback # "none" THEN "emit_analyzing" ELSE "analyze"
    /\ UNCHANGED <<caller, hashSeed, videos, index, status, error, results,
                   emitted, stream, response, faults, delays, otherVars>>

(* lines 123-127 with an injected fetcher: raises *)
FetchRaises ==
    /\ pc = "fetch"
    /\ "injected" \in Fetchers
    /\ \E msg \in FetchErrors : RaiseInTry("fetch", msg)
    /\ fetched' = [fetched EXCEPT ![index] =
                     [asked |-> TRUE, returned |-> FALSE, via |-> NoExchange,
                      comments |-> <<>>]]
    /\ UNCHANGED <<caller, hashSeed, videos, index, comments, status, results,
                   emitted, stream, response, delays, otherVars>>

(* lines 132-135 *)
EmitAnalyzing ==
    /\ pc = "emit_analyzing"
    /\ status' = [status EXCEPT !.status = "analyzing_comments",
                                !.comments_fetched = <<Len(comments)>>]
    /\ heap' = [heap EXCEPT ![Len(heap)] = status']
    /\ Deliver(status', "emit_analyzing", "analyze")
    /\ UNCHANGED <<caller, hashSeed, videos, index, comments, results,
                   stream, response, fetched, delays, besideSink>>

(* lines 138-146: analyse, enhance, append *)
Analyze ==
    /\ pc = "analyze"
    /\ IF EnhanceRaises(comments)
       THEN /\ RaiseInTry("enhance", SumTypeError)
            /\ UNCHANGED results
       ELSE /\ results' = Append(results,
                            EnhanceWithBatchMetrics(
                                AnalyzeVideoComments(videos[index], comments),
                                comments, hashSeed))
            /\ pc' = IF ProgressCallback # "none" THEN "emit_completed" ELSE AfterCompleted
            /\ UNCHANGED <<error, faults>>
    /\ UNCHANGED <<caller, hashSeed, videos, index, comments, status,
                   emitted, stream, response, fetched, delays, otherVars>>

(* lines 149-151 *)
EmitCompleted ==
    /\ pc = "emit_completed"
    /\ status' = [status EXCEPT !.status = "completed"]
    /\ heap' = [heap EXCEPT ![Len(heap)] = status']
    /\ Deliver(status', "emit_completed", AfterCompleted)
    /\ UNCHANGED <<caller, hashSeed, videos, index, comments, results,
                   stream, response, fetched, delays, besideSink>>

(* lines 156-157: await asyncio.sleep(1) *)
Sleep ==
    /\ pc = "sleep"
    /\ pc' = "for"
    /\ delays' = Append(delays, index)
    /\ UNCHANGED <<caller, hashSeed, videos, index, comments, status, error, results,
                   emitted, stream, response, faults, fetched, otherVars>>

(* lines 156-157: the sleep raises (the task's timer or loop fails) *)
SleepRaises ==
    /\ pc = "sleep"
    /\ \E msg \in SleepErrors : RaiseInTry("sleep", msg)
    /\ UNCHANGED <<caller, hashSeed, videos, index, comments, status, results,
                   emitted, stream, response, fetched, delays, otherVars>>

(* the handler without the append *)
ErrorResults_dropped(rs, video, msg) == rs

(* lines 159-164: the handler appends the error analysis *)
ErrorResults(rs, video, msg) == Append(rs, CreateErrorAnalysis(video, msg))

Except ==
    /\ pc = "except"
    /\ results' = ErrorResults(results, videos[index], error)
    /\ pc' = IF ProgressCallback # "none" THEN "emit_error" ELSE "for"
    /\ UNCHANGED <<caller, hashSeed, videos, index, comments, status, error,
                   emitted, stream, response, faults, fetched, delays, otherVars>>

(* lines 167-176: the error status; an exception here leaves the function *)
EmitError ==
    /\ pc = "emit_error"
    /\ status' = BatchProcessingStatus(index, "error", <<error>>)
    /\ heap' = Append(heap, status')
    /\ \/ /\ ProgressCallback = "awaitable"
          /\ emitted' = Append(emitted, [rec |-> status', taken |-> TRUE])
          /\ held' = Append(held, Len(heap'))
          /\ pc' = "for"
          /\ UNCHANGED <<error, faults>>
       \/ /\ emitted' = Append(emitted, [rec |-> status', taken |-> FALSE])
          /\ held' = held
          /\ \E msg \in (IF ProgressCallback = "asyncgen"
                         THEN {AsyncGenTypeError} ELSE SinkErrors) :
                /\ error' = msg
                /\ faults' = [faults EXCEPT ![index] =
                                       Append(@, [step |-> "emit_error", msg |-> msg])]
          /\ pc' = "raise"
    /\ UNCHANGED <<caller, hashSeed, videos, index, comments, results,
                   stream, response, fetched, delays, besideSink>>

(* line 181 and what the caller does with the list *)
Return ==
    /\ pc = "return"
    /\ pc' = "done"
    /\ CASE caller = "sync" ->
              /\ response' = IF results = <<>> THEN HttpError(500) ELSE SyncResponse(results)
              /\ UNCHANGED stream
         [] caller = "stream" ->
              /\ stream' = Append(stream, StreamElement("final_results", StreamResponse(results)))
              /\ UNCHANGED response
         [] OTHER ->
              /\ response' = [NoResponse EXCEPT !.kind = "list", !.videos = results]
              /\ UNCHANGED stream
    /\ UNCHANGED <<caller, hashSeed, videos, index, comments, status, error, results,
                   emitted, faults, fetched, delays, otherVars>>

(* an exception that left analyze_videos_batch reaches the caller *)
Propagate ==
    /\ pc = "raise"
    /\ pc' = "done"
    /\ stream' = IF caller = "stream"
                 THEN Append(stream, StreamElement("error", NoResponse)) ELSE stream
    /\ response' = IF caller = "sync" THEN HttpError(500)
                   ELSE IF caller = "direct" THEN [NoResponse EXCEPT !.kind = "exception"]
                   ELSE response
    /\ UNCHANGED <<caller, hashSeed, videos, index, comments, status, error, results,
                   emitted, faults, fetched, delays, otherVars>>

Next ==
    \/ Start \/ For \/ EmitFetching \/ FetchYouTube \/ FetchInjected \/ FetchRaises
    \/ EmitAnalyzing \/ Analyze \/ EmitCompleted \/ Sleep \/ SleepRaises
    \/ Except \/ EmitError \/ Return \/ Propagate

Spec == Init /\ [][Next]_vars

-----------------------------------------------------------------------------
(* _calculate_sentiment_summary applied to every list of labels *)

Labels == {"positive", "neutral", "negative"}

AddSentiment ==
    /\ Len(sentiments) < MaxSentiments
    /\ \E l \in Labels : sentiments' = Append(sentiments, l)
    /\ summary' = CalculateSentimentSummary(sentiments')
    /\ UNCHANGED <<batchVars, scoreVars, countVars, llmVars, extraVars>>

NextSentiment == AddSentiment

InitIdle ==
    /\ caller = "direct"
    /\ hashSeed = 0
    /\ videos = <<>>
    /\ pc = "idle"
    /\ index = 0
    /\ comments = <<>>
    /\ status = NoStatus
    /\ error = <<>>
    /\ results = <<>>
    /\ emitted = <<>>
    /\ stream = <<>>
    /\ response = NoResponse
    /\ faults = <<>>
    /\ fetched = <<>>
    /\ delays = <<>>

InitSummary == InitIdle /\ InitOther

SpecSentiment == InitSummary /\ [][NextSentiment]_vars

-----------------------------------------------------------------------------
(* _analyze_sentiment applied to every outcome of the scoring *)

Scores ==
    [raises : {FALSE}, polarity : (-MaxPolarity)..MaxPolarity]
        \cup {[raises |-> TRUE, polarity |-> 0]}

CallAnalyzeSentiment ==
    /\ \E score \in Scores :
          /\ scored' = <<score>>
          /\ sentiment' = <<AnalyzeSentiment(score)>>
    /\ UNCHANGED <<batchVars, sentimentVars, countVars, llmVars, extraVars>>

NextScore == CallAnalyzeSentiment

SpecScore == InitSummary /\ [][NextScore]_vars

-----------------------------------------------------------------------------
(* The counts of the two endpoints, applied to the same lists of results *)

CountedVideo(i) == [videoId |-> i]

(* the entries a batch can hold: full, empty, error, and the analysis of    *)
(* a malformed comment list after the engagement merge                      *)
CountedResults(i) ==
    { EnhanceWithBatchMetrics(AnalyzeVideoComments(CountedVideo(i), <<Praise>>), <<Praise>>, 0),
      CreateEmptyAnalysis(CountedVideo(i)),
      CreateErrorAnalysis(CountedVideo(i), Text(1, 5)),
      EnhanceWithBatchMetrics(AnalyzeVideoComments(CountedVideo(i), <<NoAuthor>>), <<NoAuthor>>, 0) }

AddCounted ==
    /\ Len(counted) < MaxCounted
    /\ \E r \in CountedResults(Len(counted) + 1) : counted' = Append(counted, r)
    /\ syncCounts' = SyncResponse(counted')
    /\ streamCounts' = StreamResponse(counted')
    /\ UNCHANGED <<batchVars, sentimentVars, scoreVars, llmVars, extraVars>>

NextCounts == AddCounted

SpecCounts == InitSummary /\ [][NextCounts]_vars

-----------------------------------------------------------------------------
(* llm_analyzer.analyze_video_comments, one action per blocking step *)

(* lines 52-93: sanitize, build base_response, return when nothing is left *)
Sanitize ==
    /\ llm_pc = "idle"
    /\ \E cs \in LlmInputs :
          LET sanitized == SanitizeComments(cs, <<>>)
              base      == BaseResponse(LlmVideo, cs, sanitized)
          IN  /\ llm_comments' = cs
              /\ sanitized_comments' = sanitized
              /\ IF sanitized = <<>>
                 THEN /\ base_response' =
                           [base EXCEPT !.reason = <<NoCommentsReason(base.comments_fetched)>>]
                      /\ llm_pc' = "returned"
                 ELSE /\ base_response' = base
                      /\ llm_pc' = "loop"
    /\ UNCHANGED <<last_error, model_index, posted, reply>>
    /\ UNCHANGED <<batchVars, sentimentVars, scoreVars, countVars, extraVars>>

(* lines 94-140: one pass of the loop, the request to the next model *)
Post ==
    /\ llm_pc = "loop"
    /\ model_index < Len(openrouter_models)
    /\ model_index' = model_index + 1
    /\ posted' = Append(posted, openrouter_models[model_index'])
    /\ \E x \in Replies :
          LET out == Attempt(x)
          IN  /\ reply' = x
              /\ last_error' = IF out.control = "return" THEN last_error
                               ELSE <<out.last_error>>
              /\ base_response' =
                    IF out.control = "return"
                    THEN [base_response EXCEPT !.pros = out.sections.pros,
                                               !.cons = out.sections.cons,
                                               !.next_hot_topic = out.sections.next_hot_topic]
                    ELSE base_response
              /\ llm_pc' = CASE out.control = "return" -> "returned"
                             [] out.control = "break" -> "failed"
                             [] out.control = "raise" -> "raised"
                             [] OTHER -> IF model_index' < Len(openrouter_models)
                                         THEN "loop" ELSE "failed"
    /\ UNCHANGED <<llm_comments, sanitized_comments>>
    /\ UNCHANGED <<batchVars, sentimentVars, scoreVars, countVars, extraVars>>

(* lines 142-144 *)
AllFailed ==
    /\ llm_pc = "failed"
    /\ base_response' = [base_response EXCEPT !.reason = <<"LLM analysis failed for all models.">>]
    /\ llm_pc' = "returned"
    /\ UNCHANGED <<llm_comments, sanitized_comments, last_error, model_index, posted, reply>>
    /\ UNCHANGED <<batchVars, sentimentVars, scoreVars, countVars, extraVars>>

NextLLM == Sanitize \/ Post \/ AllFailed

-----------------------------------------------------------------------------
(* the two endpoints of app/main.py up to the call of analyze_videos_batch *)

(* a request arrives (the rate limiter has admitted it) *)
Receive ==
    /\ req_pc = "idle"
    /\ req_pc' = "filters"
    /\ req_caller' \in {"sync", "stream"}
    /\ filters' \in FiltersInputs
    /\ UNCHANGED <<search_filters, searches, answer>>
    /\ UNCHANGED besideRequest

(* main.py 62-69 and 151-160: parse the filters *)
Filters ==
    /\ req_pc = "filters"
    /\ LET outcome == ParseFilters(filters)
       IN  /\ search_filters' = IF outcome = "ok" THEN <<SearchFilters(filters)>> ELSE <<>>
           /\ req_pc' = IF outcome \in {"none", "ok"} THEN "search" ELSE "answered"
           /\ answer' =
                 CASE outcome \in {"none", "ok"} -> answer
                   [] outcome = "caught" ->
                        IF req_caller = "sync" THEN <<HttpError(400)>>
                        ELSE <<StreamElement("error", "Invalid filters JSON")>>
                   [] OTHER ->
                        IF req_caller = "sync" THEN <<HttpError(500)>>
                        ELSE <<StreamElement("error", "Stream error")>>
    /\ UNCHANGED <<req_caller, filters, searches>>
    /\ UNCHANGED besideRequest

(* main.py 71-80 and 162-172: search for videos *)
SearchVideos ==
    /\ req_pc = "search"
    /\ searches' = Append(searches, search_filters)
    /\ \E out \in SearchOutcomes :
          IF out.raises
          THEN /\ req_pc' = "answered"
               /\ answer' = IF req_caller = "sync" THEN <<HttpError(out.code)>>
                             ELSE <<StreamElement("error", "Stream error")>>
          ELSE IF out.videos = <<>>
          THEN /\ req_pc' = "answered"
               /\ answer' = IF req_caller = "sync" THEN <<HttpError(404)>>
                             ELSE <<StreamElement("error", "No videos found for the given query")>>
          ELSE /\ req_pc' = "batch"
               /\ answer' = answer
    /\ UNCHANGED <<req_caller, filters, search_filters>>
    /\ UNCHANGED besideRequest

(* a call of _extract_next_topic_ideas *)
CallExtractNextTopicIdeas ==
    /\ \E cs \in AskLists :
          /\ comment_texts' = cs
          /\ unique_topics' = ExtractNextTopicIdeas(cs)
    /\ UNCHANGED besideTopics

NextTopics == CallExtractNextTopicIdeas

(* a call of _extract_keywords *)
CallExtractKeywords ==
    /\ \E cs \in WordedLists :
          /\ keyword_texts' = cs
          /\ top_keywords' = ExtractKeywords(cs)
    /\ UNCHANGED besideKeywords

NextKeywords == CallExtractKeywords

SpecKeywords == InitSummary /\ [][NextKeywords]_vars

SpecTopics == InitSummary /\ [][NextTopics]_vars

-----------------------------------------------------------------------------
(* event_stream of src/main.py, one action per blocking step *)

(* the outer handler, lines 75-77: yield the error, the generator ends *)
EventStreamFails ==
    /\ ev_yielded' = Append(ev_yielded, StreamElement("error", "exception"))
    /\ ev_pc' = "done"

(* lines 58-62 *)
SearchYouTubeVideos ==
    /\ ev_pc = "idle"
    /\ \E out \in SearchResults :
          IF out.raises
          THEN EventStreamFails /\ UNCHANGED <<ev_videos, ev_idx>>
          ELSE IF out.videos = <<>>
          THEN /\ ev_yielded' = Append(ev_yielded, StreamElement("error", "No videos found"))
               /\ ev_pc' = "done"
               /\ UNCHANGED <<ev_videos, ev_idx>>
          ELSE /\ ev_videos' = out.videos
               /\ ev_idx' = 1
               /\ ev_pc' = "fetch"
               /\ UNCHANGED ev_yielded
    /\ UNCHANGED <<ev_comments, ev_analysis, ev_inserts>>
    /\ UNCHANGED besideEvents

(* line 66 *)
FetchComments ==
    /\ ev_pc = "fetch"
    /\ \E x \in CommentsExchanges :
          LET out == FetchTopComments(x)
          IN  IF out.raises
              THEN EventStreamFails /\ UNCHANGED ev_comments
              ELSE /\ ev_comments' = out.comments
                   /\ ev_pc' = "analyze"
                   /\ UNCHANGED ev_yielded
    /\ UNCHANGED <<ev_videos, ev_idx, ev_analysis, ev_inserts>>
    /\ UNCHANGED besideEvents

(* line 67 *)
AnalyzeComments ==
    /\ ev_pc = "analyze"
    /\ ev_analysis' \in AnalysisOutcomes(ev_videos[ev_idx], ev_comments)
    /\ ev_pc' = "insert"
    /\ UNCHANGED <<ev_videos, ev_idx, ev_comments, ev_inserts, ev_yielded>>
    /\ UNCHANGED besideEvents

(* lines 68-73: the insert, whose exception is logged, then the yield *)
InsertAndYield ==
    /\ ev_pc = "insert"
    /\ \E inserted \in BOOLEAN : ev_inserts' = Append(ev_inserts, inserted)
    /\ ev_yielded' = Append(ev_yielded, StreamElement("video", ev_analysis))
    /\ IF ev_idx < Len(ev_videos)
       THEN ev_idx' = ev_idx + 1 /\ ev_pc' = "fetch"
       ELSE ev_idx' = ev_idx /\ ev_pc' = "done"
    /\ UNCHANGED <<ev_videos, ev_comments, ev_analysis>>
    /\ UNCHANGED besideEvents

NextEvents == SearchYouTubeVideos \/ FetchComments \/ AnalyzeComments \/ InsertAndYield

SpecEvents == InitSummary /\ [][NextEvents]_vars

-----------------------------------------------------------------------------
(* a call of check_rate_limit by a request of some client, at a time not    *)
(* before the last call's                                                   *)
Check ==
    /\ Len(admitted) + Len(rejected) < MaxChecks
    /\ \E step \in ClockSteps, client \in Clients :
          LET out == CheckRateLimit(requests, clock + step)
          IN  /\ clock' = clock + step
              /\ requests' = out.requests
              /\ IF out.raises
                 THEN /\ rejected' = Append(rejected, [time |-> clock', client |-> client])
                      /\ admitted' = admitted
                 ELSE /\ admitted' = Append(admitted, [time |-> clock', client |-> client])
                      /\ rejected' = rejected
    /\ UNCHANGED besideLimiter

NextLimiter == Check

SpecLimiter == InitSummary /\ [][NextLimiter]_vars

NextRequest == Receive \/ Filters \/ SearchVideos

SpecRequest == InitSummary /\ [][NextRequest]_vars

SpecLLM == InitSummary /\ [][NextLLM]_vars

-----------------------------------------------------------------------------
(* Vocabulary of the properties *)

ListsEmpty(r) ==
    /\ r.pros = <<>> /\ r.cons = <<>> /\ r.nextTopicIdeas = <<>> /\ r.comments = <<>>

HasErrorKeyword(r) == \E k \in DOMAIN r.topKeywords : r.topKeywords[k].kind = "error"

IsErrorVariant(r) ==
    /\ r.commentCount = 0
    /\ r.sentimentSummary = [positive |-> 0, neutral |-> 1000, negative |-> 0]
    /\ Len(r.topKeywords) = 1
    /\ r.topKeywords[1].kind = "error"
    /\ ListsEmpty(r)

IsEmptyVariant(r) ==
    /\ r.commentCount = 0
    /\ r.sentimentSummary = [positive |-> 0, neutral |-> 1000, negative |-> 0]
    /\ r.topKeywords = <<>>
    /\ ListsEmpty(r)

IsFullVariant(r) ==
    /\ r.commentCount > 0
    /\ Len(r.comments) = r.commentCount
    /\ ~HasErrorKeyword(r)

(* the result entries and the progress statuses that belong to video i *)
EntriesOf(i) == SelectSeq(results, LAMBDA r : r.videoId = videos[i].videoId)

StatusesOf(i) ==
    LET mine == SelectSeq(emitted, LAMBDA e : e.rec.current_video = i)
    IN  [k \in DOMAIN mine |-> mine[k].rec.status]

(* video i has left the loop body *)
Finished(i) ==
    \/ index > i
    \/ index = i /\ pc \in {"for", "return", "done"}

StepsOf(i) == [k \in DOMAIN faults[i] |-> faults[i][k].step]

IsPrefix(s, t) == Len(s) <= Len(t) /\ s = SubSeq(t, 1, Len(s))

-----------------------------------------------------------------------------
OnlyFetchFaults == \A i \in DOMAIN videos : StepsOf(i) \in {<<>>, <<"fetch">>}

(* C2: if the comment fetch raises for some videos and nothing else        *)
(* raises, the batch never aborts, and when it returns every video was     *)
(* fetched, the entry of a failed video is the error variant and every     *)
(* other entry is the enhanced analysis of that video's own comments.      *)
C2_FetchFailureIsolated ==
    OnlyFetchFaults =>
        /\ pc # "raise"
        /\ pc = "return" =>
              /\ Len(results) = Len(videos)
              /\ \A i \in DOMAIN videos :
                    /\ fetched[i].asked
                    /\ results[i].videoId = videos[i].videoId
                    /\ IF StepsOf(i) = <<"fetch">>
                       THEN IsErrorVariant(results[i])
                       ELSE /\ fetched[i].returned
                            /\ results[i] =
                                 EnhanceWithBatchMetrics(
                                     AnalyzeVideoComments(videos[i], fetched[i].comments),
                                     fetched[i].comments, hashSeed)

C2_Witness ==
    /\ pc = "return"
    /\ Len(videos) = 2
    /\ StepsOf(1) = <<"fetch">>
    /\ StepsOf(2) = <<>>
    /\ Len(results) = 2
    /\ IsFullVariant(results[2])

AllowedStatusSequences ==
    { <<"fetching_comments", "analyzing_comments", "completed">>,
      <<"fetching_comments", "error">>,
      <<"fetching_comments", "analyzing_comments", "error">> }

(* C3: with a sink attached, the statuses emitted for a video are one of   *)
(* [fetching, analyzing, completed], [fetching, error],                    *)
(* [fetching, analyzing, error]: at any moment a prefix of one of them,    *)
(* and one of them once the video is finished.                             *)
C3_StatusSequences ==
    ProgressCallback # "none" =>
        \A i \in DOMAIN videos :
            /\ \E a \in AllowedStatusSequences : IsPrefix(StatusesOf(i), a)
            /\ (Finished(i) /\ pc # "raise") => StatusesOf(i) \in AllowedStatusSequences

(* C4: for a non-empty list of found videos the stream is the progress     *)
(* events in processing order followed by exactly one final_results        *)
(* element, which is its last element.                                     *)
C4_StreamEndsWithFinal ==
    (caller = "stream" /\ pc = "done" /\ videos # <<>>) =>
        /\ Len(stream) = Len(emitted) + 1
        /\ stream[Len(stream)].kind = "final_results"
        /\ \A j \in 1..(Len(stream) - 1) : stream[j].kind = "progress"

AnalysisFails(i) ==
    /\ fetched[i].returned
    /\ fetched[i].comments # <<>>
    /\ \E k \in DOMAIN fetched[i].comments : ~fetched[i].comments[k].wf

(* C5: when the analysis of a video with at least one fetched comment      *)
(* fails (a comment record lacks a required field), the video's entry is   *)
(* the error variant and its status is error, never completed.             *)
C5_AnalysisFailureIsError ==
    \A i \in DOMAIN videos :
        AnalysisFails(i) =>
            /\ \A k \in DOMAIN EntriesOf(i) : IsErrorVariant(EntriesOf(i)[k])
            /\ "completed" \notin Range(StatusesOf(i))

ZeroComments(i) == fetched[i].returned /\ fetched[i].comments = <<>>

ViaYouTube(i) == fetched[i].asked /\ fetched[i].via # NoExchange

(* C6: a video whose fetch yields zero comments (with YouTubeService:     *)
(* every status other than 200 and every exception inside                  *)
(* get_video_comments) gets the empty variant, and its last progress       *)
(* status is completed, never error, when no step of the video raises.     *)
C6_ZeroCommentsIsEmpty ==
    \A i \in DOMAIN videos :
        /\ ViaYouTube(i) =>
              /\ fetched[i].returned
              /\ (fetched[i].via.raises \/ fetched[i].via.code # 200) => ZeroComments(i)
        /\ (ZeroComments(i) /\ Finished(i) /\ faults[i] = <<>>) =>
              /\ EntriesOf(i) =
                   << [videoId |-> videos[i].videoId, commentCount |-> 0,
                       sentimentSummary |-> [positive |-> 0, neutral |-> 1000, negative |-> 0],
                       topKeywords |-> <<>>, pros |-> <<>>, cons |-> <<>>,
                       nextTopicIdeas |-> <<>>, comments |-> <<>>] >>
              /\ ProgressCallback # "none" =>
                    /\ StatusesOf(i)[Len(StatusesOf(i))] = "completed"
                    /\ "error" \notin Range(StatusesOf(i))

C6_Witness ==
    \E i \in DOMAIN videos :
        /\ Finished(i) /\ ZeroComments(i) /\ faults[i] = <<>>
        /\ fetched[i].via.code = 500 /\ fetched[i].via.items # <<>>
        /\ StatusesOf(i) = <<"fetching_comments", "analyzing_comments", "completed">>
        /\ Len(EntriesOf(i)) = 1

(* C7: every error-variant entry has commentCount 0, the neutral summary,  *)
(* exactly one keyword, 'error: ' followed by the first 50 characters at   *)
(* most of the message of an exception raised for that video, and empty    *)
(* pros, cons, nextTopicIdeas and comments.                                *)
C7_ErrorVariantShape ==
    \A k \in DOMAIN results :
        HasErrorKeyword(results[k]) =>
            LET r == results[k]
                t == r.topKeywords[1].text
            IN  /\ r.commentCount = 0
                /\ r.sentimentSummary = [positive |-> 0, neutral |-> 1000, negative |-> 0]
                /\ Len(r.topKeywords) = 1
                /\ r.topKeywords[1].name = "error: "
                /\ r.pros = <<>> /\ r.cons = <<>>
                /\ r.nextTopicIdeas = <<>> /\ r.comments = <<>>
                /\ Len(t) <= 50
                /\ \E j \in DOMAIN faults[r.videoId] :
                      LET m == faults[r.videoId][j].msg
                      IN  /\ IsPrefix(t, m)
                          /\ Len(t) = IF Len(m) <= 50 THEN Len(m) ELSE 50

C7_Witness ==
    \E k \in DOMAIN results :
        /\ HasErrorKeyword(results[k])
        /\ Len(results[k].topKeywords[1].text) = 50
        /\ \E j \in DOMAIN faults[results[k].videoId] :
              /\ Len(faults[results[k].videoId][j].msg) = 60
              /\ IsPrefix(results[k].topKeywords[1].text, faults[results[k].videoId][j].msg)

IsFullAnalysisOf(r, cs) ==
    /\ cs # <<>>
    /\ r.commentCount = Len(cs)
    /\ Len(r.comments) = Len(cs)
    /\ \A j \in DOMAIN cs : r.comments[j].text = cs[j].text
    /\ ~HasErrorKeyword(r)

(* C8: every entry of a batch result is the full, the empty or the error   *)
(* variant: none has commentCount 0 together with non-error keywords.      *)
C8_ThreeVariants ==
    \A k \in DOMAIN results :
        \/ IsFullAnalysisOf(results[k], fetched[results[k].videoId].comments)
        \/ IsEmptyVariant(results[k])
        \/ IsErrorVariant(results[k])

(* C9: in every entry topKeywords has at most 10 items, pros and cons at   *)
(* most 5 each and nextTopicIdeas at most 4.                               *)
C9_ListCaps ==
    \A k \in DOMAIN results :
        /\ Len(results[k].topKeywords) <= 10
        /\ Len(results[k].pros) <= 5
        /\ Len(results[k].cons) <= 5
        /\ Len(results[k].nextTopicIdeas) <= 4

C9_Witness ==
    \E k \in DOMAIN results :
        /\ Len(results[k].topKeywords) = 10
        /\ Len(results[k].pros) = 5
        /\ Len(results[k].cons) = 5
        /\ Len(results[k].nextTopicIdeas) = 4
        /\ Cardinality(Range(ExtractKeywords(fetched[results[k].videoId].comments)
                             \o EngagementKeywords(fetched[results[k].videoId].comments))) > 10

SummarySum == summary.positive + summary.neutral + summary.negative

Abs(n) == IF n < 0 THEN -n ELSE n

(* C11: for a non-empty list of labels each component of the summary is    *)
(* the thousandth nearest to count / length (the share rounded to 3        *)
(* decimals); for the empty list the summary is {0, 1, 0}.                 *)
C11_SummaryIsRoundedShare ==
    IF sentiments = <<>>
    THEN summary = [positive |-> 0, neutral |-> 1000, negative |-> 0]
    ELSE \A l \in Labels :
            /\ summary[l] \in 0..1000
            /\ 2 * Abs(1000 * Count(sentiments, l) - summary[l] * Len(sentiments))
                  <= Len(sentiments)

C11_Witness ==
    /\ sentiments = <<"positive", "positive", "negative", "neutral">>
    /\ summary = [positive |-> 500, neutral |-> 250, negative |-> 250]

(* C12: _analyze_sentiment answers positive exactly when the polarity is   *)
(* above 0.1, negative exactly when it is below -0.1 and neutral           *)
(* otherwise, 0.1 and -0.1 included; when the scoring fails it answers     *)
(* neutral: the answer is always one of the three labels.                  *)
C12_SentimentThresholds ==
    scored # <<>> =>
        LET score == scored[1]
            l     == sentiment[1]
        IN  /\ l \in {"positive", "neutral", "negative"}
            /\ score.raises => l = "neutral"
            /\ ~score.raises =>
                  /\ (l = "positive") <=> (score.polarity > 10)
                  /\ (l = "negative") <=> (score.polarity < -10)
                  /\ (l = "neutral") <=> (score.polarity \in (-10)..10)

C12_Witness ==
    /\ scored = << [raises |-> FALSE, polarity |-> 10] >>
    /\ sentiment = << "neutral" >>

CountsAsSuccessful(r) == r.commentCount > 0 \/ Len(r.topKeywords) > 0

DerivedCounts(c, rs) ==
    /\ c.total_processed = Len(rs)
    /\ c.successful_analyses = Cardinality({i \in DOMAIN rs : CountsAsSuccessful(rs[i])})
    /\ c.failed_analyses = c.total_processed - c.successful_analyses

(* C13: in the synchronous response and in the stream's final aggregate    *)
(* successful_analyses is the number of results with commentCount > 0 or   *)
(* at least one keyword, failed_analyses is total_processed minus it,      *)
(* total_processed is the number of results, and the two forms give the    *)
(* same counts for the same results.                                       *)
C13_SameCounts ==
    /\ DerivedCounts(syncCounts, counted)
    /\ DerivedCounts(streamCounts, counted)
    /\ syncCounts.total_processed = streamCounts.total_processed
    /\ syncCounts.successful_analyses = streamCounts.successful_analyses
    /\ syncCounts.failed_analyses = streamCounts.failed_analyses

(* the entries of a video whose fetch returned and that no handler built *)
AnalysedEntries == {k \in DOMAIN results : fetched[results[k].videoId].returned
                                            /\ ~HasErrorKeyword(results[k])}

(* what a run whose process has string-hash seed s makes of the comments   *)
(* that entry k was made of                                                *)
EntryUnderSeed(k, s) ==
    LET v  == results[k].videoId
        cs == fetched[v].comments
    IN  EnhanceWithBatchMetrics(AnalyzeVideoComments(videos[v], cs), cs, s)

(* C14: two runs of the batch on the same videos and the same fetched      *)
(* comments give identical entries, topKeywords' content and order         *)
(* included: an entry of this run is the entry any other run makes of the  *)
(* same comments.                                                          *)
C14_RunsAgree ==
    \A k \in AnalysedEntries : \A s \in HashSeeds : results[k] = EntryUnderSeed(k, s)

DelaysAfter(i) == Cardinality({k \in DOMAIN delays : delays[k] = i})

(* C15: exactly one pacing delay lies between the end of a video and the   *)
(* comment fetch of the next one, whether the video ended completed or     *)
(* error, and there is no delay after the last video.                      *)
C15_OneDelayBetweenVideos ==
    /\ \A i \in DOMAIN videos :
          (i < Len(videos) /\ fetched[i + 1].asked) => DelaysAfter(i) = 1
    /\ DelaysAfter(Len(videos)) = 0

(* the statuses of video i that the sink accepted *)
TakenStatusesOf(i) ==
    LET mine == SelectSeq(emitted, LAMBDA e : e.rec.current_video = i /\ e.taken)
    IN  [k \in DOMAIN mine |-> mine[k].rec.status]

Terminal(i) ==
    /\ EntriesOf(i) # <<>>
    /\ ProgressCallback # "none" =>
          /\ TakenStatusesOf(i) # <<>>
          /\ TakenStatusesOf(i)[Len(TakenStatusesOf(i))] \in {"completed", "error"}

(* C16: the videos are processed one after another: the fetch of video     *)
(* i+1 does not start before video i has its result appended and its       *)
(* completed or error status emitted, and current_video never decreases    *)
(* along the emitted statuses.                                             *)
C16_StrictlySequential ==
    /\ \A i \in DOMAIN videos :
          (i < Len(videos) /\ fetched[i + 1].asked) => Terminal(i)
    /\ \A j, k \in DOMAIN emitted :
          j < k => emitted[j].rec.current_video <= emitted[k].rec.current_video

C16_Witness ==
    /\ ProgressCallback = "awaitable"
    /\ Len(videos) = 2
    /\ fetched[1].returned /\ fetched[2].asked
    /\ TakenStatusesOf(1) = <<"fetching_comments", "analyzing_comments", "completed">>
    /\ TakenStatusesOf(2) = <<"fetching_comments">>

(* a reply that is a success: HTTP 200 whose content parses to at least    *)
(* one non-empty section                                                   *)
IsSuccess(x) ==
    /\ ~x.raises /\ x.status = 200 /\ x.body = "ok" /\ ~x.content.blank
    /\ LET r == ExtractSectionsFromText(x.content)
       IN  ~r.raises /\ (r.pros # <<>> \/ r.cons # <<>> \/ r.next_hot_topic # <<>>)

(* C17: the chain requests the models in the order of openrouter_models,   *)
(* each at most once, and requests no further model once a model has       *)
(* given a success.                                                        *)
C17_FixedOrderUntilSuccess ==
    /\ [](IsPrefix(posted, openrouter_models) /\ Len(posted) = model_index)
    /\ [][IsSuccess(reply) => posted' = posted]_vars

C17_Witness ==
    /\ llm_pc = "returned"
    /\ posted = SubSeq(openrouter_models, 1, 3)
    /\ IsSuccess(reply)

(* HTTP 429 or 403, or an exception of the request or of the parse *)
TriesNext(x) ==
    \/ x.raises
    \/ ~x.raises /\ x.status \in {429, 403}
    \/ ~x.raises /\ x.status = 200 /\ x.body = "malformed"
    \/ ~x.raises /\ x.status = 200 /\ x.body = "ok" /\ ~x.content.blank
          /\ x.content.parse = "raises"

EndsChain(x) == ~x.raises /\ x.status \notin {200, 429, 403}

EmptyFields(r) == r.pros = <<>> /\ r.cons = <<>> /\ r.next_hot_topic = <<>>

(* C18: after a 429, a 403 or an exception from model k the next request   *)
(* goes to model k+1 when there is one; any other non-200 status ends the  *)
(* chain: no later model is requested and the result has empty fields and  *)
(* the reason 'LLM analysis failed for all models.'.                       *)
C18_RetryOrAbort ==
    /\ [](posted # <<>> =>
            /\ (TriesNext(reply) /\ model_index < Len(openrouter_models)) => llm_pc = "loop"
            /\ EndsChain(reply) =>
                  /\ llm_pc \in {"failed", "returned"}
                  /\ llm_pc = "returned" =>
                        /\ EmptyFields(base_response)
                        /\ base_response.reason = <<"LLM analysis failed for all models.">>)
    /\ [][/\ llm_pc = "loop" => posted' = Append(posted, openrouter_models[model_index + 1])
          /\ (posted # <<>> /\ EndsChain(reply)) => posted' = posted]_vars

C18_Witness ==
    /\ llm_pc = "returned"
    /\ Len(posted) = 3
    /\ reply.status = 500
    /\ base_response.reason = <<"LLM analysis failed for all models.">>

(* C19: whatever the models answer, the chain never raises and can always  *)
(* go on until it returns; when every attempt failed the record has empty  *)
(* pros, cons and next_hot_topic and the reason of total failure.          *)
C19_NeverRaises ==
    /\ llm_pc \in {"idle", "loop", "failed", "returned"}
    /\ llm_pc # "returned" => ENABLED NextLLM
    /\ (llm_pc = "returned" /\ posted # <<>> /\ ~IsSuccess(reply)) =>
          /\ EmptyFields(base_response)
          /\ base_response.reason = <<"LLM analysis failed for all models.">>

C19_Witness ==
    /\ llm_pc = "returned"
    /\ posted = openrouter_models
    /\ reply.status = 200 /\ reply.body = "malformed"
    /\ base_response.reason = <<"LLM analysis failed for all models.">>

(* no comment of the input survives the sanitizing *)
NoneSurvives ==
    \A i \in DOMAIN llm_comments :
        LET c == SimpleText(llm_comments[i])
        IN  c = <<>> \/ ~IsEnglish(c) \/ WordCount(c) > 100

(* C20: when no comment survives the sanitizing the chain returns at once, *)
(* with no request sent, empty pros, cons and next_hot_topic, the reason   *)
(* 'No comments fetched from API.' for an empty input and 'No valid        *)
(* comments found after filtering.' otherwise, comments_sanitized 0 and    *)
(* comments_fetched the length of the input.                               *)
C20_NothingToAnalyze ==
    (llm_pc # "idle" /\ NoneSurvives) =>
        /\ llm_pc = "returned"
        /\ posted = <<>> /\ model_index = 0
        /\ EmptyFields(base_response)
        /\ base_response.reason =
              << IF llm_comments = <<>> THEN "No comments fetched from API."
                 ELSE "No valid comments found after filtering." >>
        /\ base_response.comments_sanitized = 0
        /\ base_response.comments_fetched = Len(llm_comments)

C20_Witness ==
    /\ llm_pc = "returned"
    /\ llm_comments = <<Bien, LongText>>
    /\ base_response.reason = <<"No valid comments found after filtering.">>
    /\ base_response.comments_fetched = 2

(* the items of a section: the lines of the joined string *)
RECURSIVE Lines(_, _)
Lines(text, line) ==
    IF text = <<>> THEN (IF line = <<>> THEN <<>> ELSE <<line>>)
    ELSE IF Head(text) = "\n" THEN <<line>> \o Lines(Tail(text), <<>>)
    ELSE Lines(Tail(text), Append(line, Head(text)))

(* the reply carries a content that extract_sections_from_text parses *)
Parsed(x) ==
    /\ ~x.raises /\ x.status = 200 /\ x.body = "ok" /\ ~x.content.blank
    /\ x.content.parse # "raises"

(* C21: for every model output that extract_sections_from_text parses, by *)
(* the JSON path or the regex path, items with leading or trailing         *)
(* whitespace included, no item of the returned cons is identical to an    *)
(* item of the returned next_hot_topic.                                    *)
C21_ConsDisjointFromNext ==
    (posted # <<>> /\ Parsed(reply)) =>
        LET result == ExtractSectionsFromText(reply.content)
        IN  Range(Lines(result.cons, <<>>)) \cap Range(Lines(result.next_hot_topic, <<>>)) = {}

(* the filters parameter is present and is not a valid SearchFilters value *)
Malformed(f) == f.json # "none" /\ ~(f.json = "object" /\ SearchFilters(f).ok)

(* C22: when the filters parameter is present but malformed the request is *)
(* rejected, with HTTP 400 on /analyze-youtube and with a single error      *)
(* element on the stream, before any video search or comment fetch is made, *)
(* and nothing is retried.                                                  *)
C22_MalformedFiltersRejected ==
    (req_pc \notin {"idle", "filters"} /\ Malformed(filters)) =>
        /\ req_pc = "answered"
        /\ searches = <<>>
        /\ Len(answer) = 1
        /\ req_caller = "sync" => answer[1] = HttpError(400)
        /\ req_caller = "stream" => answer[1].kind = "error"

(* the entries made of a non-empty comment list that was analysed and enhanced *)
EnhancedEntries == {k \in AnalysedEntries : fetched[results[k].videoId].comments # <<>>}

(* C23: after _enhance_with_batch_metrics on a video with comments,        *)
(* topKeywords has no duplicates and at most 10 items, contains every      *)
(* engagement tag whose condition held, and the TF-IDF keywords that       *)
(* remain are the highest-ranked ones in their original rank order.        *)
C23_EnhancedKeywords ==
    \A k \in EnhancedEntries :
        LET v      == results[k].videoId
            cs     == fetched[v].comments
            ranked == AnalyzeVideoComments(videos[v], cs).topKeywords
            kept   == SelectSeq(results[k].topKeywords, LAMBDA w : w.kind = "term")
        IN  /\ Cardinality(Range(results[k].topKeywords)) = Len(results[k].topKeywords)
            /\ Len(results[k].topKeywords) <= EnhancedCap
            /\ Range(EngagementKeywords(cs)) \subseteq Range(results[k].topKeywords)
            /\ IsPrefix(kept, ranked)

RECURSIVE Flatten(_)
Flatten(ss) == IF ss = <<>> THEN <<>> ELSE Head(ss) \o Flatten(Tail(ss))

(* the qualifying fragments of a comment list in scanning order: comment by *)
(* comment, pattern by pattern, match by match                              *)
QualifyingFragments(cs) ==
    SelectSeq(Flatten([i \in DOMAIN cs |-> Flatten(cs[i].asks)]),
              LAMBDA f : f.len > 5 /\ f.len < 50)

(* C25: _extract_next_topic_ideas returns the first four distinct          *)
(* qualifying fragments in first-seen order across the whole comment list, *)
(* fewer than four only when there are fewer than four distinct ones, and  *)
(* never a duplicate.                                                      *)
C25_FirstFourDistinct ==
    /\ unique_topics = Take(Unique(QualifyingFragments(comment_texts), <<>>), 4)
    /\ Cardinality(Range(unique_topics)) = Len(unique_topics)

(* an HTTP 200 reply whose content is empty or parses to three empty sections *)
EmptyReply(x) ==
    /\ ~x.raises /\ x.status = 200 /\ x.body = "ok"
    /\ \/ x.content.blank
       \/ /\ x.content.parse # "raises"
          /\ LET r == ExtractSectionsFromText(x.content)
             IN  r.pros = <<>> /\ r.cons = <<>> /\ r.next_hot_topic = <<>>

(* C24: an HTTP 200 reply whose content is empty, or whose parse yields    *)
(* empty pros, cons and next_hot_topic, is a failure of that model: its    *)
(* result is not returned and the next model in order is requested; a      *)
(* record is returned as success only when a section is non-empty.         *)
C24_EmptyReplyIsFailure ==
    /\ (posted # <<>> /\ EmptyReply(reply)) =>
          /\ EmptyFields(base_response)
          /\ Len(posted) < Len(openrouter_models) => (llm_pc = "loop" /\ ENABLED Post)
          /\ llm_pc = "returned" =>
                (Len(posted) = Len(openrouter_models) /\ base_response.reason # NoReason)
    /\ (llm_pc = "returned" /\ base_response.reason = NoReason) =>
          (IsSuccess(reply) /\ ~EmptyFields(base_response))

C24_Witness ==
    /\ llm_pc = "returned"
    /\ Len(posted) = 3
    /\ last_error = <<"All extracted sections are empty">>
    /\ IsSuccess(reply)
    /\ base_response.reason = NoReason

(* the texts of an _extract_keywords call that do not clean to empty *)
CleanedTexts == SelectSeq(keyword_texts, LAMBDA c : c.terms # {})

(* C26: _extract_keywords returns at most 10 keywords in descending order  *)
(* of mean weight; every one occurs in at least 2 distinct cleaned         *)
(* comments, is no domain stop word and has at least 3 characters; the     *)
(* result is the empty list on empty input, when every comment cleans to   *)
(* empty and when the vectorizer fails because no term reaches 2           *)
(* documents; the call always returns a list.                              *)
C26_KeywordsRankedAndFiltered ==
    /\ Len(top_keywords) <= 10
    /\ \A i, j \in DOMAIN top_keywords :
          i < j => TermWeight(top_keywords[i].id) >= TermWeight(top_keywords[j].id)
    /\ \A i \in DOMAIN top_keywords :
          /\ top_keywords[i].kind = "term"
          /\ DocFreq(CleanedTexts, top_keywords[i].id) >= 2
          /\ ~TermInStopWords(top_keywords[i].id)
          /\ TermLength(top_keywords[i].id) >= 3
    /\ (keyword_texts = <<>> \/ CleanedTexts = <<>>
          \/ \A t \in Terms : DocFreq(CleanedTexts, t) < 2) => top_keywords = <<>>

C26_Witness ==
    /\ Len(top_keywords) = 10
    /\ \E t \in Terms : DocFreq(CleanedTexts, t) >= 2 /\ TermKw(t) \notin Range(top_keywords)
    /\ \E i \in DOMAIN keyword_texts : keyword_texts[i].terms = {}

(* the video ids of the 'video' events yielded so far, in order *)
VideoEvents ==
    LET evs == SelectSeq(ev_yielded, LAMBDA e : e.kind = "video")
    IN  [k \in DOMAIN evs |-> evs[k].body.video_id]

(* C27: in the LLM-only stream a failure while handling one video (comment *)
(* fetch, LLM analysis or store insert) does not stop the remaining        *)
(* videos: when the stream ends, exactly one 'video' event has been        *)
(* emitted per video the search returned, in search order, also for a      *)
(* video whose insert failed.                                              *)
C27_OneEventPerVideo ==
    /\ IsPrefix(VideoEvents, [i \in DOMAIN ev_videos |-> ev_videos[i].video_id])
    /\ ev_pc = "done" => Len(VideoEvents) = Len(ev_videos)

(* the records the sink took, as they were when it took them *)
TakenRecords ==
    LET mine == SelectSeq(emitted, LAMBDA e : e.taken)
    IN  [k \in DOMAIN mine |-> mine[k].rec]

(* C28: a progress record already delivered to the sink is not changed by  *)
(* later steps of the batch: what the sink holds for each delivery is      *)
(* still the record as delivered, so that the fetching_comments record     *)
(* keeps its status and has no comments_fetched, and the three records of  *)
(* a completed video are three distinct values.                            *)
C28_DeliveredRecordsKept ==
    /\ Len(held) = Len(TakenRecords)
    /\ \A j \in DOMAIN held : heap[held[j]] = TakenRecords[j]

(* the admitted calls less than a window before time t *)
AdmittedWithin(t) == {j \in DOMAIN admitted : t - admitted[j].time < window_size}

C30_ReasonIffEmpty ==
    llm_pc = "returned" =>
        /\ (base_response.reason # NoReason) <=> EmptyFields(base_response)
        /\ base_response.comments_sanitized <= base_response.comments_fetched
        /\ base_response.comments_fetched = Len(llm_comments)

C30_Witness ==
    /\ llm_pc = "returned"
    /\ base_response.reason = NoReason
    /\ ~EmptyFields(base_response)
    /\ base_response.cons = <<>>
    /\ 0 < base_response.comments_sanitized
    /\ base_response.comments_sanitized < base_response.comments_fetched

====
